---- MODULE Spec2Model ----
(***************************************************************************)
(* Verification model of the Spectrum result cache and comparison engine.  *)
(*                                                                         *)
(* Part 1 (specification Spec): AnalyzeArticleUseCase.execute running on   *)
(* top of MemoryCache (one cachetools TTLCache per key type), with several *)
(* requests interleaving at their await points.                            *)
(*                                                                         *)
(* Time is counted in seconds, as timedelta.total_seconds() gives it.      *)
(***************************************************************************)
EXTENDS Bags, FiniteSets, Integers, Sequences, TLC

\* ------------------------------------------------------------------ bounds
NumCallers == 2          \* requests that may be in flight together
MaxCalls == 3            \* requests started in one behaviour
MaxCacheSize == 2        \* largest maxsize MemoryCache is constructed with
MaxCacheOps == 3         \* set, delete and clear_pattern calls on the store alone

Callers == 1..NumCallers
Urls == {"u1", "u2"}
Instants == {0, 43200, 86400}                \* when the requests are observed
CacheInstants == {0, 900, 1800, 3600, 86400} \* when the store alone is observed
Scores == {-6, 6}        \* leaning scores in tenths
FetchErrors == {"ContentExtractionError", "BlockedSourceError"}
ProviderName == "groq"

\* ------------------------------------------------------------ cache keys
\* md5(url)[:12]: injective on the URLs of the model
UrlHash(u) == IF u = "u1" THEN "c4ca4238a0b9" ELSE "c81e728d9d4c"

\* CacheKeys.article: f"article:{url_hash}"
ArticleKey(u) == <<"article", UrlHash(u)>>

\* CacheKeys.analysis: f"analysis:{provider}:{url_hash}"
AnalysisKey(u, provider) == <<"analysis", provider, UrlHash(u)>>

\* key.split(":")[0] if ":" in key else "default"; a key is the sequence of
\* its colon-separated parts
KeyType(key) == IF Len(key) > 1 THEN key[1] ELSE "default"

KeyTypes == {"article", "analysis", "search", "related", "default"}

DEFAULT_TTLS ==
  [article |-> 3600, analysis |-> 86400, search |-> 900, related |-> 1800]

\* DEFAULT_TTLS.get(key_type, timedelta(hours=1)).total_seconds()
TtlSeconds(key_type) ==
  IF key_type \in DOMAIN DEFAULT_TTLS THEN DEFAULT_TTLS[key_type] ELSE 3600

\* Python's None
None == "None"

\* set called without a ttl argument (ttl = None)
NoTtl == -1

\* a mutation of EntryTtl: the ttl argument of set is honoured
EntryTtlFromArgument(key, ttl) ==
  IF ttl = NoTtl THEN TtlSeconds(KeyType(key)) ELSE ttl

\* the TTL of the link MemoryCache.set(key, value, ttl) makes: that of the
\* TTLCache of the key's type, the ttl argument not being read
EntryTtl(key, ttl) == TtlSeconds(KeyType(key))

\* ------------------------------------------------------------- TTLCache
\* A TTLCache is the sequence of its links in least-recently-used order;
\* each link is [key, value, expires].

HasLink(cache, key) == \E i \in 1..Len(cache) : cache[i].key = key

LinkOf(cache, key) ==
  cache[CHOOSE i \in 1..Len(cache) : cache[i].key = key]

RemoveKey(cache, key) == SelectSeq(cache, LAMBDA l : l.key # key)

\* TTLCache.expire(time): drop every link with not (time < link.expires)
ExpireLinks(cache, time) == SelectSeq(cache, LAMBDA l : time < l.expires)

\* a plausible slip: an entry is still served at the instant it expires
TTLContainsInclusive(cache, key, time) ==
  HasLink(cache, key) /\ time <= LinkOf(cache, key).expires

\* TTLCache.__contains__: self.timer() < link.expires
TTLContains(cache, key, time) ==
  HasLink(cache, key) /\ time < LinkOf(cache, key).expires

\* a plausible slip: the link read moves to the least recently used end
TouchLinkToFront(cache, key) ==
  IF HasLink(cache, key)
    THEN <<LinkOf(cache, key)>> \o RemoveKey(cache, key)
    ELSE cache

\* TTLCache.__getlink: move_to_end(key)
TouchLink(cache, key) ==
  IF HasLink(cache, key)
    THEN Append(RemoveKey(cache, key), LinkOf(cache, key))
    ELSE cache

\* Cache.__setitem__ under TTLCache.__setitem__: purge expired links, make
\* room by popping least recently used links, then (re)insert at the end.
TTLSetItem(cache, key, value, time, ttl, maxsize) ==
  LET purged == ExpireLinks(cache, time)
      room == IF HasLink(purged, key) \/ Len(purged) < maxsize
                THEN purged
                ELSE SubSeq(purged, Len(purged) - maxsize + 2, Len(purged))
  IN Append(RemoveKey(room, key),
            [key |-> key, value |-> value, expires |-> time + ttl])

\* keys popped by popitem() during that set
EvictedBySet(cache, key, time, maxsize) ==
  LET purged == ExpireLinks(cache, time)
  IN IF HasLink(purged, key) \/ Len(purged) < maxsize
       THEN {}
       ELSE {purged[i].key : i \in 1..(Len(purged) - maxsize + 1)}


\* ------------------------------------------------------------ state
VARIABLES
  now,              \* the clock TTLCache reads (timer())
  maxsize,          \* MemoryCache._maxsize
  caches,           \* MemoryCache._caches: key type -> TTLCache
  pc,               \* where each request stands in execute
  url,              \* execute's url argument
  force_refresh,    \* execute's force_refresh argument
  include_points,   \* execute's include_points argument
  leaning,          \* the score awaited from analyze_political_leaning
  started,          \* requests started so far
  overlapped,       \* history: per request in flight, did another request of its url run with it
  wrote,            \* history: per request in flight, the keys it has set or whose entry its steps changed
  justBegan,        \* history: the request that began in the step just taken
  justFailed,       \* history: the request that raised in the step just taken
  lastDone,         \* history: the request that finished last, and what it returned
  lastOutcome,      \* history: per url, how the last finished request ended
  cacheOps,         \* writes made to the store alone so far
  setAt,            \* history: per key, the time of its last set
  setVal,           \* history: per key, the value of its last set
  removed,          \* history: per key, deleted or cleared by a caller since its last set
  evicted,          \* history: per key, popped to make room since its last set
  insertedSeq,      \* history: per key, which write of the run its last set was
  readSince,        \* history: per key, returned by get since its last set
  articles,         \* the analyzed articles of the comparison request, in request order
  pairwise_comparisons, \* the ArticleComparison objects built so far
  cmp_pc,           \* where the comparison request stands
  lastRaw,          \* history: what the provider answered in the step just taken
  comparison,       \* the MultiArticleComparison returned, once there is one
  urls,             \* the urls of the comparison request, in the caller's order
  pending,          \* positions of urls whose analysis has not completed
  outOfOrder,       \* history: an analysis completed before one of an earlier url
  req_pc,           \* where the call of _make_request stands
  attempt_number,   \* the retry's count of attempts of the call (from 1)
  attempt_log,      \* history: how each attempt of the call ended
  sleeps,           \* history: the seconds waited between the call's attempts
  delivered,        \* history: what the caller of the call has been given
  requests,         \* calls of _make_request made so far
  thrown,           \* what the response interceptor threw for the last failed call
  shown,            \* what ErrorMessage last rendered
  history,          \* useSearchHistory: the items, first the latest
  historyClock,     \* what new Date() read at the latest add
  addedSeq,         \* history: for each URL, the number of the add that last added it
  historyOps,       \* calls made on useSearchHistory
  selectedArticles, \* useComparisonStore: the selection, in the order added
  status,           \* useBackendStatus: the BackendStatus
  lifecycle,        \* the component using the hook: "initial", "mounted", "unmounted"
  isMounted,        \* isMountedRef.current
  pollIntervalRef,  \* pollIntervalRef.current: a timer's id, or 0 for null
  timers,           \* the intervals set and not cleared: [id, since, next]
  healthInitial,    \* checkStatus's health requests not answered: [since, deadline]
  healthPoll,       \* the poll ticks' health requests not answered: the bag of their deadlines
  clock,            \* Date.now(), in seconds from the mount
  checks,           \* history: calls of checkStatus made
  lastCheckAt,      \* history: when checkStatus was last called
  sideBySide,       \* history: what SideBySideView rendered in the step just taken
  comparisonView    \* history: what ComparisonView computed in the step just taken

vars == <<now, maxsize, caches, pc, url, force_refresh, include_points, leaning,
          started, overlapped, wrote, justBegan, justFailed, lastDone, lastOutcome,
          cacheOps, setAt, setVal, removed, evicted, insertedSeq, readSince,
          articles, pairwise_comparisons, cmp_pc, lastRaw, comparison,
          urls, pending, outOfOrder,
          req_pc, attempt_number, attempt_log, sleeps, delivered, requests,
          thrown, shown, history, historyClock, addedSeq, historyOps, selectedArticles,
          status, lifecycle, isMounted, pollIntervalRef, timers, healthInitial,
          healthPoll, clock, checks, lastCheckAt, sideBySide, comparisonView>>

viewVars == <<sideBySide, comparisonView>>

errorVars == <<thrown, shown>>

historyVars == <<history, historyClock, addedSeq, historyOps>>

statusVars == <<status, lifecycle, isMounted, pollIntervalRef, timers, healthInitial,
                healthPoll, clock, checks, lastCheckAt>>

webVars == <<errorVars, historyVars, selectedArticles, statusVars, viewVars>>

retryVars == <<req_pc, attempt_number, attempt_log, sleeps, delivered, requests>>

compareVars == <<articles, pairwise_comparisons, cmp_pc, lastRaw, comparison,
                 urls, pending, outOfOrder>>

requestVars == <<pc, url, force_refresh, include_points, leaning, started, overlapped, wrote,
                 justBegan, justFailed, lastDone, lastOutcome>>

storeVars == <<cacheOps, setAt, setVal, removed, evicted, insertedSeq, readSince>>

NoAnalysis ==
  [article_id |-> "", article_url |-> "", score |-> 0, has_points |-> FALSE,
   analyzed_at |-> -1, ai_provider |-> "", cached |-> FALSE]

NoArticle == [id |-> "", fetched_at |-> -1]

\* a finished request: what it was asked, what it did, what came back
NoCall == [url |-> "", computed |-> FALSE, ok |-> FALSE, result |-> NoAnalysis]

NoBegin ==
  [url |-> "", force |-> FALSE, at |-> -1, hit |-> FALSE, result |-> NoAnalysis,
   valid |-> FALSE, prev |-> NoCall, prevOutcome |-> "none"]

NoFail ==
  [url |-> "", error |-> "", alone |-> FALSE, presentBefore |-> FALSE,
   presentAfter |-> FALSE, wrote |-> {}]

AllKeys ==
  {ArticleKey(u) : u \in Urls} \cup {AnalysisKey(u, ProviderName) : u \in Urls}

InFlightPcs == {"fetching", "analyzing", "points"}

\* ------------------------------------------------------- MemoryCache
\* MemoryCache.get: cache.get(key) under the lock; None is the `absent` value
CacheGet(cs, key, time, absent) ==
  LET cache == cs[KeyType(key)]
  IN IF TTLContains(cache, key, time) THEN LinkOf(cache, key).value ELSE absent

\* the cache after MemoryCache.get. Cache.get is `if key in self: return
\* self[key]`: only a link that has not expired is read, and so becomes most
\* recently used; an expired link stays where it is
CacheAfterGet(cs, key, time) ==
  IF TTLContains(cs[KeyType(key)], key, time)
    THEN [cs EXCEPT ![KeyType(key)] = TouchLink(@, key)]
    ELSE cs

\* MemoryCache.exists: key in cache
CacheExists(cs, key, time) == TTLContains(cs[KeyType(key)], key, time)

\* cache[key] = value raises ValueError("value too large") when the value's
\* size, 1 for every value, exceeds the TTLCache's maxsize
SetRaises(size) == size < 1

\* MemoryCache.set: cache[key] = value (the ttl argument is ignored)
CacheSet(cs, key, value, ttl, time, size) ==
  [cs EXCEPT ![KeyType(key)] =
     TTLSetItem(@, key, value, time, EntryTtl(key, ttl), size)]

\* MemoryCache.delete: cache.pop(key, None). Cache.pop is `if key in self:
\* value = self[key]; del self[key]`, else the default: an expired link is
\* left in place
CacheDelete(cs, key, time) ==
  IF TTLContains(cs[KeyType(key)], key, time)
    THEN [cs EXCEPT ![KeyType(key)] = RemoveKey(@, key)]
    ELSE cs

\* a plausible slip: the hit is returned without being marked
MarkCachedSkipped(cs, key) == cs

\* cached.cached = True on the object the cache holds
MarkCached(cs, key) ==
  [cs EXCEPT ![KeyType(key)] =
     [i \in 1..Len(@) |->
        IF @[i].key = key THEN [@[i] EXCEPT !.value.cached = TRUE] ELSE @[i]]]


\* ------------------------------------------- AnalyzeArticleUseCase.execute
\* `if not force_refresh: cached = await self.cache.get(cache_key); if cached:`
IsCacheHit(force, cached) == ~force /\ cached # NoAnalysis

\* the ArticleAnalysis execute builds; Article.id is the hash of the URL
BuildAnalysis(u, score, points, time) ==
  [article_id |-> UrlHash(u), article_url |-> u, score |-> score,
   has_points |-> points, analyzed_at |-> time, ai_provider |-> ProviderName,
   cached |-> FALSE]

\* a plausible slip: the failure is stored under the analysis key
CacheOnFailureStored(cs, key, time, size) ==
  CacheSet(cs, key, NoAnalysis, NoTtl, time, size)

\* An exception raised by the fetcher or the provider leaves execute through
\* no handler: nothing is written to the cache on the way out.
CacheOnFailure(cs, key, time, size) == cs

\* what the store holds under a key, live or expired: no link or one
EntryOf(cs, key) == SelectSeq(cs[KeyType(key)], LAMBDA l : l.key = key)

\* the keys whose entry differs between two states of the store
ChangedKeys(cs, cs2) == {k \in AllKeys : EntryOf(cs, k) # EntryOf(cs2, k)}

OthersInFlight(c, u) == {d \in Callers \ {c} : pc[d] \in InFlightPcs /\ url[d] = u}

\* the request's frame is gone once execute has returned or raised
Leave(c) ==
  /\ pc' = [pc EXCEPT ![c] = "idle"]
  /\ url' = [url EXCEPT ![c] = ""]
  /\ force_refresh' = [force_refresh EXCEPT ![c] = FALSE]
  /\ include_points' = [include_points EXCEPT ![c] = FALSE]
  /\ leaning' = [leaning EXCEPT ![c] = 0]
  /\ overlapped' = [overlapped EXCEPT ![c] = FALSE]
  /\ wrote' = [wrote EXCEPT ![c] = {}]

\* execute(url, force_refresh, include_points) up to its first suspension:
\* the cache check, and on a miss _fetch_article's own cache check.
Execute(c, u, f, ip) ==
  LET akey == AnalysisKey(u, ProviderName)
      cached == CacheGet(caches, akey, now, NoAnalysis)   \* read only when ~f
      cs1 == IF f THEN caches ELSE CacheAfterGet(caches, akey, now)
      hit == IsCacheHit(f, cached)
      csHit == MarkCached(cs1, akey)
      returned == CacheGet(csHit, akey, now, NoAnalysis)
      article == CacheGet(cs1, ArticleKey(u), now, NoArticle)
      csMiss == CacheAfterGet(cs1, ArticleKey(u), now)
  IN /\ pc[c] = "idle"
     /\ \A d \in Callers : pc[d] = "idle" => c <= d   \* request slots are interchangeable
     /\ started < MaxCalls
     /\ started' = started + 1
     /\ justFailed' = NoFail
     /\ justBegan' =
          [url |-> u, force |-> f, at |-> now, hit |-> hit,
           result |-> IF hit THEN returned ELSE NoAnalysis,
           valid |-> CacheExists(caches, akey, now),
           prev |-> IF \E d \in Callers : pc[d] \in InFlightPcs THEN NoCall ELSE lastDone,
           prevOutcome |-> IF OthersInFlight(c, u) # {} THEN "none" ELSE lastOutcome[u]]
     /\ IF hit
          THEN /\ caches' = csHit
               /\ lastDone' = [url |-> u, computed |-> FALSE, ok |-> TRUE,
                               result |-> returned]
               /\ lastOutcome' = [lastOutcome EXCEPT ![u] = "ok"]
               /\ UNCHANGED <<pc, url, force_refresh, include_points, leaning, overlapped, wrote>>
          ELSE /\ caches' = csMiss
               /\ pc' = [pc EXCEPT ![c] =
                           IF article # NoArticle THEN "analyzing" ELSE "fetching"]
               /\ url' = [url EXCEPT ![c] = u]
               /\ force_refresh' = [force_refresh EXCEPT ![c] = f]
               /\ include_points' = [include_points EXCEPT ![c] = ip]
               /\ overlapped' = [d \in Callers |->
                                   IF d = c THEN OthersInFlight(c, u) # {}
                                   ELSE IF d \in OthersInFlight(c, u) THEN TRUE
                                   ELSE overlapped[d]]
               /\ wrote' = [wrote EXCEPT ![c] = ChangedKeys(caches, caches')]
               /\ UNCHANGED <<leaning, lastDone, lastOutcome>>
     /\ UNCHANGED <<webVars, retryVars, compareVars, now, maxsize, storeVars>>

\* execute fails with `err`: the exception propagates to the route
Raise(c, err) ==
  LET akey == AnalysisKey(url[c], ProviderName)
  IN /\ caches' = CacheOnFailure(caches, akey, now, maxsize)
     /\ lastDone' = [url |-> url[c], computed |-> TRUE, ok |-> FALSE,
                     result |-> NoAnalysis]
     /\ justFailed' = [url |-> url[c], error |-> err, alone |-> ~overlapped[c],
                       presentBefore |-> CacheExists(caches, akey, now),
                       presentAfter |-> CacheExists(caches', akey, now),
                       wrote |-> wrote[c] \cup ChangedKeys(caches, caches')]
     /\ justBegan' = NoBegin
     /\ lastOutcome' = [lastOutcome EXCEPT ![url[c]] =
                          IF overlapped[c] THEN "failed" ELSE "failed_alone"]
     /\ Leave(c)
     /\ UNCHANGED <<webVars, retryVars, compareVars, now, maxsize, started, storeVars>>

\* `article = await self.fetcher.fetch(url)` returns: the article is cached
\* and asyncio.gather starts the two provider calls
FetchOk(c) ==
  /\ pc[c] = "fetching"
  /\ IF SetRaises(maxsize)
       THEN Raise(c, "ValueError")
       ELSE /\ caches' = CacheSet(caches, ArticleKey(url[c]),
                                  [id |-> UrlHash(url[c]), fetched_at |-> now],
                                  NoTtl, now, maxsize)
            /\ pc' = [pc EXCEPT ![c] = "analyzing"]
            /\ wrote' = [wrote EXCEPT ![c] =
                           @ \cup {ArticleKey(url[c])} \cup ChangedKeys(caches, caches')]
            /\ justBegan' = NoBegin
            /\ justFailed' = NoFail
            /\ UNCHANGED <<webVars, retryVars, compareVars, now, maxsize, url, force_refresh, include_points,
                           leaning, started, overlapped, lastDone, lastOutcome, storeVars>>

\* the fetcher raises
FetchFail(c, err) ==
  /\ pc[c] = "fetching"
  /\ Raise(c, err)

\* cache.set(cache_key, analysis) and `return analysis`
StoreAndReturn(c, score) ==
  LET u == url[c]
      akey == AnalysisKey(u, ProviderName)
      analysis == BuildAnalysis(u, score, include_points[c], now)
  IN IF SetRaises(maxsize)
       THEN Raise(c, "ValueError")
       ELSE /\ caches' = CacheSet(caches, akey, analysis, NoTtl, now, maxsize)
            /\ lastDone' = [url |-> u, computed |-> TRUE, ok |-> TRUE, result |-> analysis]
            /\ lastOutcome' = [lastOutcome EXCEPT ![u] = "ok"]
            /\ justBegan' = NoBegin
            /\ justFailed' = NoFail
            /\ Leave(c)
            /\ UNCHANGED <<webVars, retryVars, compareVars, now, maxsize, started, storeVars>>

\* asyncio.gather(analyze_political_leaning, extract_topics) returns
GatherOk(c, score) ==
  /\ pc[c] = "analyzing"
  /\ IF include_points[c]
       THEN /\ pc' = [pc EXCEPT ![c] = "points"]
            /\ leaning' = [leaning EXCEPT ![c] = score]
            /\ justBegan' = NoBegin
            /\ justFailed' = NoFail
            /\ UNCHANGED <<webVars, retryVars, compareVars, now, maxsize, caches, url, force_refresh, include_points,
                           started, overlapped, wrote, lastDone, lastOutcome, storeVars>>
       ELSE StoreAndReturn(c, score)

\* one of the two gathered provider calls raises
GatherFail(c) ==
  /\ pc[c] = "analyzing"
  /\ Raise(c, "AIProviderError")

\* extract_key_points returns
PointsOk(c) ==
  /\ pc[c] = "points"
  /\ StoreAndReturn(c, leaning[c])

\* extract_key_points raises
PointsFail(c) ==
  /\ pc[c] = "points"
  /\ Raise(c, "AIProviderError")

\* the task running execute is cancelled (the caller gave up, or timed out):
\* asyncio raises CancelledError inside execute at the await it is suspended on
Cancel(c) ==
  /\ pc[c] \in InFlightPcs
  /\ Raise(c, "CancelledError")

\* time passes
Tick(t) ==
  /\ t > now
  /\ now' = t
  /\ justBegan' = NoBegin
  /\ justFailed' = NoFail
  /\ UNCHANGED <<webVars, retryVars, compareVars, maxsize, caches, pc, url, force_refresh, include_points, leaning,
                 started, overlapped, wrote, lastDone, lastOutcome, storeVars>>

\* the keys and values put into the store when it is exercised alone
StoreKeys ==
  {<<"search", "newsapi", "k1">>, <<"search", "newsapi", "k2">>,
   <<"search", "newsapi", "k3">>, <<"article", "k1">>,
   <<"analysis", "groq", "k1">>, <<"related", "k1">>, <<"plain">>}
StoreValues == {"v1", "v2"}
\* the ttl arguments set is called with: none, or timedelta(minutes=1)
SetTtls == {NoTtl, 60}

InitStoreHistory ==
  /\ cacheOps = 0
  /\ setAt = [k \in StoreKeys |-> -1]
  /\ setVal = [k \in StoreKeys |-> None]
  /\ removed = [k \in StoreKeys |-> FALSE]
  /\ evicted = [k \in StoreKeys |-> FALSE]
  /\ insertedSeq = [k \in StoreKeys |-> 0]
  /\ readSince = [k \in StoreKeys |-> FALSE]

InitRequests ==
  /\ pc = [c \in Callers |-> "idle"]
  /\ url = [c \in Callers |-> ""]
  /\ force_refresh = [c \in Callers |-> FALSE]
  /\ include_points = [c \in Callers |-> FALSE]
  /\ leaning = [c \in Callers |-> 0]
  /\ started = 0
  /\ overlapped = [c \in Callers |-> FALSE]
  /\ wrote = [c \in Callers |-> {}]
  /\ justBegan = NoBegin
  /\ justFailed = NoFail
  /\ lastDone = NoCall
  /\ lastOutcome = [u \in Urls |-> "none"]

\* no provider answer in the step just taken
NoRaw == [raw |-> <<>>, failed |-> FALSE, raised |-> FALSE, asked |-> FALSE]

\* no MultiArticleComparison returned yet
NoComparison ==
  [articles |-> <<>>, leaning_spectrum |-> <<>>, overall_summary |-> "", n_pairs |-> -1]

\* no comparison requested yet
InitCompare ==
  /\ articles = <<>>
  /\ pairwise_comparisons = <<>>
  /\ cmp_pc = "idle"
  /\ lastRaw = NoRaw
  /\ comparison = NoComparison
  /\ urls = <<>>
  /\ pending = {}
  /\ outOfOrder = FALSE

\* no error, no failed call, nothing rendered
NoError == [name |-> "none", code |-> "", message |-> "", retryable |-> ""]

NoThrown == [failed |-> FALSE, has_response |-> FALSE, message |-> "", data |-> "",
             error |-> NoError]

NoShown == [error |-> NoError, on_retry |-> FALSE,
            view |-> [code |-> "", message |-> "", show_retry |-> FALSE]]

InitErrors ==
  /\ thrown = NoThrown
  /\ shown = NoShown

MAX_HISTORY_ITEMS == 10

\* the URLs searched: one more than the history holds
HistoryUrls == 1..(MAX_HISTORY_ITEMS + 1)

\* useSearchHistory with nothing persisted
InitHistory ==
  /\ history = <<>>
  /\ historyClock = 0
  /\ addedSeq = [u \in HistoryUrls |-> 0]
  /\ historyOps = 0

\* useComparisonStore as created
InitSelection == selectedArticles = <<>>

\* useBackendStatus before its component is mounted
InitStatus ==
  /\ status = "checking"
  /\ lifecycle = "initial"
  /\ isMounted = TRUE
  /\ pollIntervalRef = 0
  /\ timers = {}
  /\ healthInitial = {}
  /\ healthPoll = EmptyBag
  /\ clock = 0
  /\ checks = 0
  /\ lastCheckAt = 0

\* no comparison rendered
NoSideBySide == [rendered |-> FALSE, articles |-> <<>>, stored_swapped |-> FALSE,
                 unique_used |-> <<>>, marks |-> <<>>]

NoComparisonView == [rendered |-> FALSE, articles |-> <<>>, common_topics |-> {}]

InitViews ==
  /\ sideBySide = NoSideBySide
  /\ comparisonView = NoComparisonView

\* the web client as loaded
InitWeb ==
  /\ InitErrors
  /\ InitHistory
  /\ InitSelection
  /\ InitStatus
  /\ InitViews

\* no call of _make_request made
InitRetry ==
  /\ req_pc = "idle"
  /\ attempt_number = 0
  /\ attempt_log = <<>>
  /\ sleeps = <<>>
  /\ delivered = <<>>
  /\ requests = 0

\* MemoryCache(maxsize) freshly constructed, no request made; maxsize is
\* settings.cache_max_size, any integer the deployment sets
Init ==
  /\ now = 0
  /\ maxsize \in {0, MaxCacheSize}
  /\ caches = [t \in KeyTypes |-> <<>>]
  /\ InitRequests
  /\ InitStoreHistory
  /\ InitCompare
  /\ InitRetry
  /\ InitWeb

Next ==
  \/ \E c \in Callers, u \in Urls, f \in BOOLEAN, ip \in BOOLEAN : Execute(c, u, f, ip)
  \/ \E c \in Callers : FetchOk(c)
  \/ \E c \in Callers, err \in FetchErrors : FetchFail(c, err)
  \/ \E c \in Callers, score \in Scores : GatherOk(c, score)
  \/ \E c \in Callers : GatherFail(c)
  \/ \E c \in Callers : PointsOk(c)
  \/ \E c \in Callers : PointsFail(c)
  \/ \E c \in Callers : Cancel(c)
  \/ \E t \in Instants : Tick(t)

Spec == Init /\ [][Next]_vars

\* ------------------------------------------------ MemoryCache on its own
\* TTLCache.__iter__ yields the keys that have not expired
LiveKeys(cache, time) ==
  {cache[i].key : i \in {j \in 1..Len(cache) : time < cache[j].expires}}

\* k.startswith(pattern.rstrip("*")), on keys and prefixes given by their parts
StartsWith(key, prefix) ==
  Len(prefix) <= Len(key) /\ SubSeq(key, 1, Len(prefix)) = prefix

\* the keys clear_pattern deletes
ClearedKeys(cs, prefix, time) ==
  {k \in UNION {LiveKeys(cs[t], time) : t \in KeyTypes} : StartsWith(k, prefix)}

\* MemoryCache.clear_pattern
CacheClearPattern(cs, prefix, time) ==
  [t \in KeyTypes |->
     SelectSeq(cs[t], LAMBDA l : l.key \notin ClearedKeys(cs, prefix, time))]

StorePrefixes == {<<"search">>, <<"search", "newsapi", "k1">>, <<>>}

\* await cache.set(key, value), but for the record of the order of use
StoreSetEffect(k, v, ttl) ==
  /\ cacheOps < MaxCacheOps
  /\ cacheOps' = cacheOps + 1
  /\ IF SetRaises(maxsize)
       THEN UNCHANGED <<caches, setAt, setVal, removed, evicted>>
       ELSE /\ caches' = CacheSet(caches, k, v, ttl, now, maxsize)
            /\ setAt' = [setAt EXCEPT ![k] = now]
            /\ setVal' = [setVal EXCEPT ![k] = v]
            /\ removed' = [removed EXCEPT ![k] = FALSE]
            /\ evicted' = [j \in StoreKeys |->
                   IF j = k THEN FALSE
                   ELSE IF j \in EvictedBySet(caches[KeyType(k)], k, now, maxsize) THEN TRUE
                   ELSE evicted[j]]
  /\ UNCHANGED <<webVars, retryVars, compareVars, now, maxsize, requestVars>>

\* await cache.set(key, value)
StoreSet(k, v, ttl) ==
  /\ StoreSetEffect(k, v, ttl)
  /\ UNCHANGED <<insertedSeq, readSince>>

\* await cache.get(key)
StoreGet(k) ==
  /\ caches' = CacheAfterGet(caches, k, now)
  /\ UNCHANGED <<webVars, retryVars, compareVars, now, maxsize, cacheOps, setAt, setVal, removed, evicted,
                 insertedSeq, readSince, requestVars>>

\* await cache.exists(key)
StoreExists(k) ==
  /\ CacheExists(caches, k, now) \in BOOLEAN
  /\ UNCHANGED <<webVars, retryVars, compareVars, now, maxsize, caches, cacheOps, setAt, setVal, removed, evicted,
                 insertedSeq, readSince, requestVars>>

\* await cache.delete(key)
StoreDelete(k) ==
  /\ cacheOps < MaxCacheOps
  /\ cacheOps' = cacheOps + 1
  /\ caches' = CacheDelete(caches, k, now)
  /\ removed' = [removed EXCEPT ![k] = TRUE]
  /\ UNCHANGED <<webVars, retryVars, compareVars, now, maxsize, setAt, setVal, evicted,
                 insertedSeq, readSince, requestVars>>

\* await cache.clear_pattern(pattern)
StoreClearPattern(prefix) ==
  /\ cacheOps < MaxCacheOps
  /\ cacheOps' = cacheOps + 1
  /\ caches' = CacheClearPattern(caches, prefix, now)
  /\ removed' = [j \in StoreKeys |->
                   IF j \in ClearedKeys(caches, prefix, now) THEN TRUE ELSE removed[j]]
  /\ UNCHANGED <<webVars, retryVars, compareVars, now, maxsize, setAt, setVal, evicted,
                 insertedSeq, readSince, requestVars>>

\* time passes
StoreTick(t) ==
  /\ t > now
  /\ now' = t
  /\ UNCHANGED <<webVars, retryVars, compareVars, maxsize, caches, cacheOps, setAt, setVal, removed, evicted,
                 insertedSeq, readSince, requestVars>>

InitCache ==
  /\ now = 0
  /\ maxsize \in 0..MaxCacheSize
  /\ caches = [t \in KeyTypes |-> <<>>]
  /\ InitRequests
  /\ InitStoreHistory
  /\ InitCompare
  /\ InitRetry
  /\ InitWeb

NextCache ==
  \/ \E k \in StoreKeys, v \in StoreValues, ttl \in SetTtls : StoreSet(k, v, ttl)
  \/ \E k \in StoreKeys : StoreGet(k)
  \/ \E k \in StoreKeys : StoreExists(k)
  \/ \E k \in StoreKeys : StoreDelete(k)
  \/ \E prefix \in StorePrefixes : StoreClearPattern(prefix)
  \/ \E t \in CacheInstants : StoreTick(t)

SpecCache == InitCache /\ [][NextCache]_vars

\* -------------------------------- one type's TTLCache, with its order of use
\* the keys of one type
EvictKeys == {k \in StoreKeys : KeyType(k) = "search"}

\* await cache.set(key, value); the set is recorded as the key's insertion
TrackedSet(k, v) ==
  /\ StoreSetEffect(k, v, NoTtl)
  /\ IF SetRaises(maxsize)
       THEN UNCHANGED <<insertedSeq, readSince>>
       ELSE /\ insertedSeq' = [insertedSeq EXCEPT ![k] = cacheOps + 1]
            /\ readSince' = [readSince EXCEPT ![k] = FALSE]

\* await cache.get(key); a get that returns the value is recorded
TrackedGet(k) ==
  /\ caches' = CacheAfterGet(caches, k, now)
  /\ readSince' = [readSince EXCEPT ![k] = @ \/ CacheGet(caches, k, now, None) # None]
  /\ UNCHANGED <<webVars, retryVars, compareVars, now, maxsize, cacheOps, setAt, setVal, removed, evicted,
                 insertedSeq, requestVars>>

NextEvict ==
  \/ \E k \in EvictKeys, v \in StoreValues : TrackedSet(k, v)
  \/ \E k \in EvictKeys : TrackedGet(k)
  \/ \E t \in CacheInstants : StoreTick(t)

SpecEvict == InitCache /\ [][NextEvict]_vars

\* ------------------------------------------- BaseAIProvider._make_request
\* calls of _make_request followed
MaxRequests == 3

\* stop_after_attempt(3)
MaxAttempts == 3

\* wait_exponential(multiplier=1, max=10)
WaitMultiplier == 1
WaitMax == 10

\* what an attempt raises: client.post (timeout=60.0, connection) or
\* response.raise_for_status()
RequestErrors == {"TimeoutException", "ConnectError", "HTTPStatusError"}

\* what _parse_response returns
Responses == {"r1", "r2"}

Min2(a, b) == IF a < b THEN a ELSE b

\* a plausible slip: the retry stops after the attempt past the third
StopAfterAttemptPast(n) == n > MaxAttempts

\* stop_after_attempt(3): attempt_number >= max_attempt_number
StopAfterAttempt(n) == n >= MaxAttempts

\* wait_exponential: min(multiplier * 2 ** (attempt_number - 1), max)
WaitExponential(n) == Min2(WaitMultiplier * 2 ^ (n - 1), WaitMax)

\* await self._make_request(messages, ...): the first attempt begins
MakeRequest ==
  /\ req_pc \in {"idle", "returned", "raised"}
  /\ requests < MaxRequests
  /\ requests' = requests + 1
  /\ req_pc' = "attempting"
  /\ attempt_number' = 1
  /\ attempt_log' = <<>>
  /\ sleeps' = <<>>
  /\ delivered' = <<>>
  /\ UNCHANGED <<now, maxsize, caches, requestVars, storeVars, compareVars, webVars>>

\* the attempt's post answers and the response parses: the call returns it
AttemptOk(r) ==
  /\ req_pc = "attempting"
  /\ attempt_log' = Append(attempt_log, r)
  /\ req_pc' = "returned"
  /\ delivered' = Append(delivered, r)
  /\ UNCHANGED <<attempt_number, sleeps, requests>>
  /\ UNCHANGED <<now, maxsize, caches, requestVars, storeVars, compareVars, webVars>>

\* the attempt raises: the retry stops with RetryError, or sleeps and goes on
AttemptFail(e) ==
  /\ req_pc = "attempting"
  /\ attempt_log' = Append(attempt_log, e)
  /\ IF StopAfterAttempt(attempt_number)
       THEN /\ req_pc' = "raised"
            /\ delivered' = Append(delivered, "RetryError")
            /\ UNCHANGED sleeps
       ELSE /\ req_pc' = "sleeping"
            /\ sleeps' = Append(sleeps, WaitExponential(attempt_number))
            /\ UNCHANGED delivered
  /\ UNCHANGED <<attempt_number, requests>>
  /\ UNCHANGED <<now, maxsize, caches, requestVars, storeVars, compareVars, webVars>>

\* the sleep is over: the next attempt begins
Wake ==
  /\ req_pc = "sleeping"
  /\ req_pc' = "attempting"
  /\ attempt_number' = attempt_number + 1
  /\ UNCHANGED <<attempt_log, sleeps, delivered, requests>>
  /\ UNCHANGED <<now, maxsize, caches, requestVars, storeVars, compareVars, webVars>>

\* an attempt ends, one way or the other
AttemptEnds ==
  \/ \E r \in Responses : AttemptOk(r)
  \/ \E e \in RequestErrors : AttemptFail(e)

NextRetry ==
  \/ MakeRequest
  \/ \E r \in Responses : AttemptOk(r)
  \/ \E e \in RequestErrors : AttemptFail(e)
  \/ Wake

\* the provider is exercised beside one store
InitRequesting == Init /\ maxsize = MaxCacheSize

SpecRetry == InitRequesting /\ [][NextRetry]_vars

\* the client's timeout (60.0) ends an attempt that gets no answer, and the
\* event loop ends a sleep
SpecRetryFair ==
  SpecRetry /\ WF_vars(AttemptEnds) /\ WF_vars(Wake)

\* ====================================================================
\* The web client (spectrum-web)
\* ====================================================================
\* what the web client's actions leave alone
serverVars == <<now, maxsize, caches, requestVars, storeVars, compareVars, retryVars>>

\* the web client is exercised beside one store
InitClient == Init /\ maxsize = MaxCacheSize

\* ------------------------------------------------- errors and their display
\* JavaScript values are written as strings: "true", "false", "undefined",
\* "null"; a property that is not there is "absent".
ErrorCodes ==
  {"BLOCKED_SOURCE", "NETWORK_ERROR", "CONTENT_EXTRACTION", "NOT_FOUND",
   "RATE_LIMITED", "AI_ERROR", "VALIDATION", "INTERNAL_ERROR"}

\* x || fallback on strings: the empty string is falsy
OrElse(x, fallback) == IF x = "" \/ x = "undefined" THEN fallback ELSE x

\* the `error` property of a response body
NoDetail == [kind |-> "absent", code |-> "absent", message |-> "undefined",
             retryable |-> "undefined"]

NullDetail == [NoDetail EXCEPT !.kind = "null"]

ErrorDetails ==
  {NoDetail, NullDetail, [NoDetail EXCEPT !.kind = "string"]}
  \cup {[kind |-> "object", code |-> c, message |-> m, retryable |-> r] :
          c \in {"BLOCKED_SOURCE", "RATE_LIMITED", "absent"},
          m \in {"slow down"}, r \in {"true", "false"}}

\* response bodies: objects with success / error / detail, and what is not
\* an object (a string, null)
ResponseBodies ==
  {[type |-> "object", success |-> sc, error |-> e, detail |-> d] :
     sc \in {"false", "true", "absent"}, e \in ErrorDetails,
     d \in {"absent", "", "Analysis failed"}}
  \cup {[type |-> t, success |-> "absent", error |-> NoDetail, detail |-> "absent"] :
          t \in {"string", "null"}}

\* the AxiosError handed to the interceptor: with or without a response
NoBody == [type |-> "none", success |-> "absent", error |-> NoDetail, detail |-> "absent"]

AxiosErrors ==
  {[has_response |-> FALSE, message |-> m, data |-> NoBody] :
     m \in {"", "Network Error"}}
  \cup {[has_response |-> TRUE, message |-> m, data |-> b] :
          m \in {"", "Request failed with status code 503"}, b \in ResponseBodies}

\* new SpectrumError(errorDetail)
SpectrumError(code, message, retryable) ==
  [name |-> "SpectrumError", code |-> code, message |-> message,
   retryable |-> retryable]

\* SpectrumError.networkError(message)
NetworkError(message) ==
  SpectrumError("NETWORK_ERROR", OrElse(message, "Network connection failed"), "true")

\* SpectrumError.unknownError(message)
UnknownError(message) ==
  SpectrumError("INTERNAL_ERROR", OrElse(message, "An unexpected error occurred"), "true")

\* SpectrumError.fromApiResponse(response)
FromApiResponse(data) ==
  SpectrumError(data.error.code, data.error.message, data.error.retryable)

\* what evaluating isApiErrorResponse(data) gives: "true", "false", or the
\* TypeError of `'code' in null` (typeof null is 'object')
IsApiErrorResponse(data) ==
  IF ~(data.type = "object" /\ data.success = "false" /\ data.error.kind # "absent")
    THEN "false"
  ELSE IF data.error.kind = "string" THEN "false"
  ELSE IF data.error.kind = "null" THEN "TypeError"
  ELSE IF data.error.code # "absent" THEN "true" ELSE "false"

\* apiClient.interceptors.response, the handler of a failed call: what it throws
Interceptor(error) ==
  IF ~error.has_response THEN NetworkError(error.message)
  ELSE IF IsApiErrorResponse(error.data) = "TypeError"
    THEN [name |-> "TypeError", code |-> "absent",
          message |-> "Cannot use 'in' operator to search for 'code' in null",
          retryable |-> "absent"]
  ELSE IF IsApiErrorResponse(error.data) = "true" THEN FromApiResponse(error.data)
  ELSE IF error.data.type = "object" /\ error.data.detail # "absent"
    THEN UnknownError(error.data.detail)
  ELSE UnknownError(error.message)

\* an API call fails with `error`: the caller is thrown what the interceptor makes
ApiCallFails(error) ==
  /\ thrown' = [failed |-> TRUE, has_response |-> error.has_response,
                message |-> error.message, data |-> error.data,
                error |-> Interceptor(error)]
  /\ UNCHANGED <<shown, historyVars, selectedArticles, statusVars, viewVars, serverVars>>

\* the errors ErrorMessage is given: what an API call threw, a plain Error,
\* and an Error with a `code` property and nothing else (as an AxiosError has)
DisplayedErrors ==
  {[name |-> "Error", code |-> "absent", message |-> "boom", retryable |-> "absent"],
   [name |-> "AxiosError", code |-> "ERR_NETWORK", message |-> "Network Error",
    retryable |-> "absent"]}

\* isSpectrumError(error): error instanceof SpectrumError || 'code' in error
IsSpectrumError(error) == error.name = "SpectrumError" \/ error.code # "absent"

\* a JavaScript value read as a condition
Truthy(x) == x \notin {"false", "undefined", "absent", "null", ""}

\* a plausible slip: the retry button is shown whenever a handler is supplied
ShowRetryAnyError(on_retry, retryable) == on_retry

\* const showRetry = onRetry && retryable
ShowRetry(on_retry, retryable) == on_retry /\ Truthy(retryable)

\* what ErrorMessage({ error, onRetry }) renders
Render(error, on_retry) ==
  LET isStructured == IsSpectrumError(error)
      code == IF isStructured THEN error.code ELSE "INTERNAL_ERROR"
      retryable == IF isStructured THEN error.retryable ELSE "true"
  IN [code |-> code, message |-> error.message,
      show_retry |-> ShowRetry(on_retry, retryable)]

\* ErrorMessage is rendered with the error thrown, or with another Error
ShowError(error, on_retry) ==
  /\ error.name # "none"
  /\ shown' = [error |-> error, on_retry |-> on_retry, view |-> Render(error, on_retry)]
  /\ UNCHANGED <<thrown, historyVars, selectedArticles, statusVars, viewVars, serverVars>>

NextErrors ==
  \/ \E error \in AxiosErrors : ApiCallFails(error)
  \/ \E error \in DisplayedErrors \cup {thrown.error}, on_retry \in BOOLEAN :
       ShowError(error, on_retry)

SpecErrors == InitClient /\ [][NextErrors]_vars

\* ------------------------------------------------------- useSearchHistory
\* calls on the store followed after it is loaded
MaxHistoryOps == 3

\* array.filter(h => h.url !== url)
WithoutUrl(items, u) == SelectSeq(items, LAMBDA h : h.url # u)

\* array.slice(0, n)
Slice(items, n) == SubSeq(items, 1, IF Len(items) < n THEN Len(items) ELSE n)

\* a plausible slip: the entry for the URL is not taken out first
AddedToHistoryKeepingOld(items, u, at) ==
  Slice(<<[url |-> u, searchedAt |-> at]>> \o items, MAX_HISTORY_ITEMS)

\* the history addToHistory sets; an item is its url and searchedAt, the
\* other fields being carried as given
AddedToHistory(items, u, at) ==
  Slice(<<[url |-> u, searchedAt |-> at]>> \o WithoutUrl(items, u), MAX_HISTORY_ITEMS)

\* the history after n searches of n URLs, as persist restores it from
\* localStorage ('spectrum-search-history')
RECURSIVE Persisted(_)
Persisted(n) == IF n = 0 THEN <<>> ELSE AddedToHistory(Persisted(n - 1), n, n)

\* the store is created and rehydrated with what an earlier session left
InitHistoryPersisted ==
  \E n \in 0..MAX_HISTORY_ITEMS :
    /\ history = Persisted(n)
    /\ historyClock = n
    /\ addedSeq = [u \in HistoryUrls |-> IF u <= n THEN u ELSE 0]
    /\ historyOps = 0

\* what new Date() can read after it read `last`: the same millisecond again,
\* a later one, or an earlier one when the clock has been set back
DateReadings(last) == {at \in {last - 1, last, last + 1} : at >= 0}

\* the adds made so far, those of the earlier session included
AddsMade ==
  CHOOSE m \in {addedSeq[u] : u \in HistoryUrls} :
    \A u \in HistoryUrls : addedSeq[u] <= m

\* addToHistory(item), with searchedAt: new Date().toISOString()
AddToHistory(u) ==
  /\ historyOps < MaxHistoryOps
  /\ historyOps' = historyOps + 1
  /\ \E at \in DateReadings(historyClock) :
       /\ historyClock' = at
       /\ history' = AddedToHistory(history, u, at)
  /\ addedSeq' = [addedSeq EXCEPT ![u] = AddsMade + 1]
  /\ UNCHANGED <<errorVars, selectedArticles, statusVars, viewVars, serverVars>>

\* removeFromHistory(url)
RemoveFromHistory(u) ==
  /\ historyOps < MaxHistoryOps
  /\ historyOps' = historyOps + 1
  /\ history' = WithoutUrl(history, u)
  /\ UNCHANGED <<historyClock, addedSeq, errorVars, selectedArticles, statusVars, viewVars, serverVars>>

\* clearHistory()
ClearHistory ==
  /\ historyOps < MaxHistoryOps
  /\ historyOps' = historyOps + 1
  /\ history' = <<>>
  /\ UNCHANGED <<historyClock, addedSeq, errorVars, selectedArticles, statusVars, viewVars, serverVars>>

NextHistory ==
  \/ \E u \in HistoryUrls : AddToHistory(u)
  \/ \E u \in HistoryUrls : RemoveFromHistory(u)
  \/ ClearHistory

\* the server side with nothing done, for the store on its own
InitServer ==
  /\ now = 0
  /\ maxsize = MaxCacheSize
  /\ caches = [t \in KeyTypes |-> <<>>]
  /\ InitRequests
  /\ InitStoreHistory
  /\ InitCompare
  /\ InitRetry

\* the client loaded in a browser that kept an earlier session's history
InitRehydrated ==
  /\ InitServer
  /\ InitErrors
  /\ InitSelection
  /\ InitStatus
  /\ InitViews
  /\ InitHistoryPersisted

SpecHistory == InitRehydrated /\ [][NextHistory]_vars

\* ------------------------------------------------------ useComparisonStore
\* the articles on offer; each can be selected pending and analyzed
SelectionUrls == {"w1", "w2", "w3", "w4"}

\* the article_id of the analysis of a URL (the hash of the URL)
ArticleIdOf ==
  [w1 |-> "id1", w2 |-> "id2", w3 |-> "id3", w4 |-> "id4"]

\* the ArticleAnalysis of a URL, and the PendingArticle made of its preview
Analyzed(u) == [isPending |-> FALSE, url |-> u, article_id |-> ArticleIdOf[u]]

PendingOf(u) == [isPending |-> TRUE, url |-> u, article_id |-> "absent"]

\* isPendingArticle(article)
IsPendingArticle(a) == a.isPending

\* getArticleId(article)
GetArticleId(a) == IF IsPendingArticle(a) THEN a.url ELSE a.article_id

\* current.some(a => getArticleId(a) === id)
IsSelected(current, id) == \E i \in 1..Len(current) : GetArticleId(current[i]) = id

\* the most the selection holds
MaxSelected == 5

\* a plausible slip: the selection is full only past five
SelectionFullPast(current) == Len(current) > MaxSelected

\* current.length >= 5
SelectionFull(current) == Len(current) >= MaxSelected

\* the selection addArticle(article) sets, or leaves
WithArticle(current, article) ==
  IF SelectionFull(current) THEN current
  ELSE IF IsSelected(current, article.article_id) THEN current
  ELSE Append(current, article)

\* the selection addPendingArticle(preview) sets, or leaves
WithPendingArticle(current, u) ==
  IF SelectionFull(current) THEN current
  ELSE IF IsSelected(current, u) THEN current
  ELSE Append(current, PendingOf(u))

\* addArticle(article)
AddArticle(u) ==
  /\ selectedArticles' = WithArticle(selectedArticles, Analyzed(u))
  /\ UNCHANGED <<errorVars, historyVars, statusVars, viewVars, serverVars>>

\* addPendingArticle(preview)
AddPendingArticle(u) ==
  /\ selectedArticles' = WithPendingArticle(selectedArticles, u)
  /\ UNCHANGED <<errorVars, historyVars, statusVars, viewVars, serverVars>>

\* removeArticle(id)
RemoveArticle(id) ==
  /\ selectedArticles' = SelectSeq(selectedArticles, LAMBDA a : GetArticleId(a) # id)
  /\ UNCHANGED <<errorVars, historyVars, statusVars, viewVars, serverVars>>

\* clearArticles()
ClearArticles ==
  /\ selectedArticles' = <<>>
  /\ UNCHANGED <<errorVars, historyVars, statusVars, viewVars, serverVars>>

\* replacePendingWithAnalyzed(url, analysis), analysis being that of the url
ReplacePendingWithAnalyzed(u) ==
  /\ selectedArticles' =
       [i \in 1..Len(selectedArticles) |->
          IF IsPendingArticle(selectedArticles[i]) /\ selectedArticles[i].url = u
            THEN Analyzed(u) ELSE selectedArticles[i]]
  /\ UNCHANGED <<errorVars, historyVars, statusVars, viewVars, serverVars>>

NextSelection ==
  \/ \E u \in SelectionUrls : AddArticle(u)
  \/ \E u \in SelectionUrls : AddPendingArticle(u)
  \/ \E u \in SelectionUrls : RemoveArticle(u)
  \/ \E u \in SelectionUrls : RemoveArticle(ArticleIdOf[u])
  \/ ClearArticles
  \/ \E u \in SelectionUrls : ReplacePendingWithAnalyzed(u)

SpecSelection == InitClient /\ [][NextSelection]_vars

\* ------------------------------------------------------- useBackendStatus
\* times are in seconds
HEALTH_TIMEOUT == 5
POLL_INTERVAL == 3
MAX_WAIT_TIME == 90

\* calls of checkStatus followed, the one at mount among them
MaxChecks == 2

\* the clock is followed this far, and checkStatus is called no later than
\* leaves time for its polling to end
Horizon == 210
LastCheckAt == Horizon - (MAX_WAIT_TIME + 2 * HEALTH_TIMEOUT + 2 * POLL_INTERVAL)

\* the timers left by stopPolling(): clearInterval(pollIntervalRef.current)
StopPolling(ts, ref) == {t \in ts : t.id # ref}

\* the body of checkStatus up to the health request it sends
CheckStatusBody ==
  /\ checks < MaxChecks
  /\ clock <= LastCheckAt
  /\ \A h \in healthInitial : h.since # clock
  /\ checks' = checks + 1
  /\ timers' = StopPolling(timers, pollIntervalRef)
  /\ pollIntervalRef' = 0
  /\ status' = "checking"
  /\ lastCheckAt' = clock
  /\ healthInitial' = healthInitial \cup
       {[since |-> clock, deadline |-> clock + HEALTH_TIMEOUT]}
  /\ UNCHANGED <<healthPoll, clock>>

\* the effect at mount: isMountedRef.current = true; checkStatus()
Mount ==
  /\ lifecycle = "initial"
  /\ lifecycle' = "mounted"
  /\ isMounted' = TRUE
  /\ CheckStatusBody
  /\ UNCHANGED <<errorVars, historyVars, selectedArticles, viewVars, serverVars>>

\* checkStatus() called by a user of the hook
CheckStatus ==
  /\ lifecycle = "mounted"
  /\ CheckStatusBody
  /\ UNCHANGED <<lifecycle, isMounted>>
  /\ UNCHANGED <<errorVars, historyVars, selectedArticles, viewVars, serverVars>>

\* pollIntervalRef.current = setInterval(...)
RefAfterSetInterval(ref, id) == id

\* checkHealth() of a checkStatus call answers: the .then callback runs
InitialHealthAnswered(h, isHealthy) ==
  /\ h \in healthInitial
  /\ healthInitial' = healthInitial \ {h}
  /\ IF ~isMounted THEN UNCHANGED <<status, timers, pollIntervalRef>>
     ELSE IF isHealthy
       THEN /\ status' = "awake"
            /\ UNCHANGED <<timers, pollIntervalRef>>
     ELSE LET id == CHOOSE i \in 1..(2 * MaxChecks + 2) : \A t \in timers : t.id # i
          IN /\ status' = "waking"
             /\ timers' = timers \cup
                  {[id |-> id, since |-> h.since, next |-> clock + POLL_INTERVAL]}
             /\ pollIntervalRef' = RefAfterSetInterval(pollIntervalRef, id)
  /\ UNCHANGED <<lifecycle, isMounted, healthPoll, clock, checks, lastCheckAt>>
  /\ UNCHANGED <<errorVars, historyVars, selectedArticles, viewVars, serverVars>>

\* the interval's callback runs, up to the health request it sends
PollTick(t) ==
  /\ t \in timers
  /\ t.next = clock
  /\ LET ticked == (timers \ {t}) \cup {[t EXCEPT !.next = clock + POLL_INTERVAL]}
     IN IF ~isMounted
          THEN /\ timers' = StopPolling(ticked, pollIntervalRef)
               /\ pollIntervalRef' = 0
               /\ UNCHANGED <<status, healthPoll>>
        ELSE IF clock - t.since >= MAX_WAIT_TIME
          THEN /\ timers' = StopPolling(ticked, pollIntervalRef)
               /\ pollIntervalRef' = 0
               /\ status' = "error"
               /\ UNCHANGED healthPoll
        ELSE /\ timers' = ticked
             /\ healthPoll' = healthPoll (+) SetToBag({clock + HEALTH_TIMEOUT})
             /\ UNCHANGED <<status, pollIntervalRef>>
  /\ UNCHANGED <<lifecycle, isMounted, healthInitial, clock, checks, lastCheckAt>>
  /\ UNCHANGED <<errorVars, historyVars, selectedArticles, viewVars, serverVars>>

\* checkHealth() of a poll tick answers: the rest of the callback runs
PollHealthAnswered(d, isHealthy) ==
  /\ BagIn(d, healthPoll)
  /\ healthPoll' = healthPoll (-) SetToBag({d})
  /\ IF isMounted /\ isHealthy
       THEN /\ timers' = StopPolling(timers, pollIntervalRef)
            /\ pollIntervalRef' = 0
            /\ status' = "awake"
       ELSE UNCHANGED <<status, timers, pollIntervalRef>>
  /\ UNCHANGED <<lifecycle, isMounted, healthInitial, clock, checks, lastCheckAt>>
  /\ UNCHANGED <<errorVars, historyVars, selectedArticles, viewVars, serverVars>>

\* the effect's cleanup at unmount
Unmount ==
  /\ lifecycle = "mounted"
  /\ lifecycle' = "unmounted"
  /\ isMounted' = FALSE
  /\ timers' = StopPolling(timers, pollIntervalRef)
  /\ pollIntervalRef' = 0
  /\ UNCHANGED <<status, healthInitial, healthPoll, clock, checks, lastCheckAt>>
  /\ UNCHANGED <<errorVars, historyVars, selectedArticles, viewVars, serverVars>>

\* the instants at which something is due: a timer fires, a request times out
DueTimes == {t.next : t \in timers} \cup {h.deadline : h \in healthInitial} \cup BagToSet(healthPoll)

\* time passes to the next instant at which something is due; what is due
\* now happens first
TimePasses ==
  /\ DueTimes # {}
  /\ \A d \in DueTimes : d > clock
  /\ LET next == CHOOSE d \in DueTimes : \A e \in DueTimes : d <= e
     IN /\ next <= Horizon
        /\ clock' = next
  /\ UNCHANGED <<status, lifecycle, isMounted, pollIntervalRef, timers, healthInitial,
                 healthPoll, checks, lastCheckAt>>
  /\ UNCHANGED <<errorVars, historyVars, selectedArticles, viewVars, serverVars>>

\* something of the hook's happens that is not a call by its user
StatusProgress ==
  \/ \E h \in healthInitial, isHealthy \in BOOLEAN : InitialHealthAnswered(h, isHealthy)
  \/ \E t \in timers : PollTick(t)
  \/ \E d \in BagToSet(healthPoll), isHealthy \in BOOLEAN : PollHealthAnswered(d, isHealthy)
  \/ TimePasses

NextStatus ==
  \/ Mount
  \/ CheckStatus
  \/ \E h \in healthInitial, isHealthy \in BOOLEAN : InitialHealthAnswered(h, isHealthy)
  \/ \E t \in timers : PollTick(t)
  \/ \E d \in BagToSet(healthPoll), isHealthy \in BOOLEAN : PollHealthAnswered(d, isHealthy)
  \/ Unmount
  \/ TimePasses

SpecStatus == InitClient /\ [][NextStatus]_vars

\* a health request is answered within HEALTH_TIMEOUT, an interval fires when
\* it is due, and time passes
SpecStatusFair == SpecStatus /\ WF_vars(Mount) /\ WF_vars(StatusProgress)

\* ====================================================================
\* Claims about AnalyzeArticleUseCase.execute (specification Spec)
\* ====================================================================

InFlight(u) == {c \in Callers : pc[c] \in InFlightPcs /\ url[c] = u}

\* C1 (as claimed): requests that ask for the same key while one computation
\* for it is running share that computation, so at no time are two executions
\* of fetch + analysis for one key in flight.
C1_SingleFlight == \A u \in Urls : Cardinality(InFlight(u)) <= 1

\* C2 (as claimed): right after a request's computation has failed, the store
\* holds no entry for its key.  Stated for requests that ran with no other
\* request of their key in flight.
C2_NoEntryAfterFailure ==
  (justFailed.url # "" /\ justFailed.alone) => ~justFailed.presentAfter

\* C2 (amended): a request whose computation fails has at no step, from its
\* beginning to the failure, set or changed the entry of its key, and the
\* failure is not stored: if the key is live in the store right after the
\* failure, what it holds is the analysis of a computation that succeeded.
\* (The failed request may have stored the article under the article's key,
\* which is all it wrote: the set can purge expired articles, nothing else.)
C2_FailureStoresNothing ==
  justFailed.url # "" =>
    LET akey == AnalysisKey(justFailed.url, ProviderName)
        held == CacheGet(caches, akey, now, NoAnalysis)
    IN /\ akey \notin justFailed.wrote
       /\ \A k \in justFailed.wrote : KeyType(k) = "article"
       /\ justFailed.presentAfter =>
            /\ held.article_url = justFailed.url
            /\ held.article_id = UrlHash(justFailed.url)
            /\ held.ai_provider = ProviderName
            /\ held.analyzed_at <= now

\* a forced refresh fetched and stored its article and then failed in the
\* provider, alone, over an analysis that is still live
C2_Witness ==
  /\ justFailed.url # ""
  /\ justFailed.alone
  /\ justFailed.error = "AIProviderError"
  /\ ArticleKey(justFailed.url) \in justFailed.wrote
  /\ justFailed.presentBefore
  /\ justFailed.presentAfter

\* C4: when a request without force_refresh begins right after another request
\* for the same url has returned (nothing in flight, nothing finished in
\* between) and less than the analysis TTL after that one's analyzed_at, it is
\* served from the cache: same article_id, same analyzed_at, cached = TRUE; and
\* the earlier request, if it was the one that computed, returned cached = FALSE.
C4_SecondCallServedFromCache ==
  LET b == justBegan
      first == b.prev
  IN (/\ b.url # ""
      /\ ~b.force
      /\ first.url = b.url
      /\ first.ok
      /\ b.at - first.result.analyzed_at < TtlSeconds("analysis"))
     => /\ b.hit
        /\ b.result.article_id = first.result.article_id
        /\ b.result.analyzed_at = first.result.analyzed_at
        /\ b.result.cached
        /\ first.computed => ~first.result.cached

\* the second of two consecutive requests hits, some time after the first computed
C4_Witness ==
  /\ justBegan.hit
  /\ justBegan.prev.url = justBegan.url
  /\ justBegan.prev.computed
  /\ justBegan.at > justBegan.prev.result.analyzed_at

\* C5 (as claimed): a request with force_refresh never returns the stored
\* value without computing, and two such requests for one key that run at the
\* same time execute the computation once between them.
C5_ForceRefreshSingleFlight ==
  /\ (justBegan.url # "" /\ justBegan.force) => ~justBegan.hit
  /\ \A u \in Urls : Cardinality({c \in InFlight(u) : force_refresh[c]}) <= 1

\* the request that follows a failed computation for the same key (none of
\* the key in flight when it begins) invokes the computation again
C6_RecomputesAfterFailure ==
  (justBegan.url # "" /\ justBegan.prevOutcome \in {"failed", "failed_alone"}) =>
    ~justBegan.hit

\* a request leaves execute, returning or raising: its outcome is delivered
Delivers(c) == pc[c] \in InFlightPcs /\ pc'[c] = "idle"

\* once the outcome of a computation for a key is delivered, nothing for the
\* key is in flight
IdleOnceDelivered ==
  \A c \in Callers : Delivers(c) =>
    {d \in Callers : pc'[d] \in InFlightPcs /\ url'[d] = url[c]} = {}

\* C6 (as claimed): after the computation for a key has failed, the next
\* request with the same key invokes the computation again rather than
\* returning the earlier failure, and the per-key in-flight state returns to
\* Idle once the outcome (Settled or Failed) has been delivered.
C6_RecomputesAndReturnsToIdle ==
  /\ []C6_RecomputesAfterFailure
  /\ [][IdleOnceDelivered]_vars

\* ====================================================================
\* Claims about MemoryCache (specification SpecCache)
\* ====================================================================

\* what get and exists must say of key k, set at setAt[k] and kept since
TtlDecides(k) ==
  IF now - setAt[k] < TtlSeconds(KeyType(k))
    THEN CacheGet(caches, k, now, None) = setVal[k] /\ CacheExists(caches, k, now)
    ELSE CacheGet(caches, k, now, None) = None /\ ~CacheExists(caches, k, now)

\* C3 (as claimed): an entry set at time s, that no caller has deleted or
\* cleared since, is returned by get (and reported by exists) at every time t
\* with t - s < T and is absent for both at every time t with t - s >= T, T
\* being the TTL of the entry's key type.
C3_TtlAlone ==
  \A k \in StoreKeys : (setAt[k] >= 0 /\ ~removed[k]) => TtlDecides(k)

\* C3 (amended): the same, for an entry that has also not been popped to make
\* room for another key of its type (the type's TTLCache holds at most maxsize
\* entries).
C3_TtlCorrectness ==
  \A k \in StoreKeys :
    (setAt[k] >= 0 /\ ~removed[k] /\ ~evicted[k]) => TtlDecides(k)

\* exactly T after its set an entry is still held by the TTLCache, and absent
C3_Witness ==
  \E k \in StoreKeys :
    /\ setAt[k] >= 0
    /\ ~removed[k]
    /\ ~evicted[k]
    /\ now - setAt[k] = TtlSeconds(KeyType(k))
    /\ HasLink(caches[KeyType(k)], k)
    /\ ~CacheExists(caches, k, now)

\* ====================================================================
\* Comparing analyzed articles: GroqProvider.compare_points and the
\* comparison of every pair of a request's articles
\* ====================================================================

\* CompareArticlesRequest.article_urls: min_length, max_length
MinArticles == 2
MaxArticles == 5

Range(s) == {s[i] : i \in 1..Len(s)}

\* str.lower() on the topic strings that occur
Lower ==
  [t \in {"Economy", "economy", "Taxes", "TAXES", "taxes", "Trade", "Health",
          "health", "Jobs"} |->
     CASE t \in {"Economy", "economy"}       -> "economy"
       [] t \in {"Taxes", "TAXES", "taxes"}  -> "taxes"
       [] t = "Trade"                        -> "trade"
       [] t \in {"Health", "health"}         -> "health"
       [] t = "Jobs"                         -> "jobs"]

\* analyzed articles a request can name: score in tenths, topics as the
\* provider spelled them, key_points by id (ids are the provider's, so two
\* articles can both have a point "p1")
AnalyzedArticles ==
  {[id |-> "a1", score |-> -6, primary |-> "Economy",
    secondary |-> <<"Taxes", "Jobs">>, key_points |-> <<"p1", "p2">>],
   [id |-> "a2", score |-> 6, primary |-> "economy",
    secondary |-> <<"Trade", "TAXES">>, key_points |-> <<"p1", "p3">>],
   [id |-> "a3", score |-> 0, primary |-> "Health",
    secondary |-> <<"taxes", "Economy", "economy">>, key_points |-> <<"p3">>],
   [id |-> "a4", score |-> -10, primary |-> "Trade",
    secondary |-> <<>>, key_points |-> <<>>],
   [id |-> "a5", score |-> 3, primary |-> "health",
    secondary |-> <<"Jobs">>, key_points |-> <<>>]}

\* requests: MinArticles..MaxArticles distinct articles in any order
ArticleLists ==
  UNION {{as \in [1..n -> AnalyzedArticles] :
            \A i, j \in 1..n : i # j => as[i] # as[j]} :
         n \in MinArticles..MaxArticles}

\* what the model's provider can answer to the comparison prompt
\* (data["comparisons"]); "p9" is a point of no article, "contradicts" is
\* outside PointComparison.relationship's pattern
RawComparison(a, b, r) == [point_a_id |-> a, point_b_id |-> b, relationship |-> r]
RawResponses ==
  {<<>>,
   <<RawComparison("p1", "p3", "agrees"), RawComparison("p9", "p3", "disagrees"),
     RawComparison("p1", "p9", "agrees"), RawComparison("p2", "p1", "disagrees")>>,
   <<RawComparison("p3", "p2", "agrees"), RawComparison("p2", "p3", "related"),
     RawComparison("p1", "p1", "unrelated"), RawComparison("p3", "p3", "disagrees")>>,
   <<RawComparison("p9", "p9", "contradicts"), RawComparison("p1", "p3", "contradicts")>>,
   <<RawComparison("p1", "p3", "agrees"), RawComparison("p2", "p1", "contradicts")>>}

\* PointComparison.relationship's pattern
ValidRelationships == {"agrees", "disagrees", "related", "unrelated"}

\* a mutation of ValidComparison: only point_a_id is looked up
ValidComparisonLeftOnly(c, points_a, points_b) == c.point_a_id \in Range(points_a)

\* compare_points: both ids are keys of the maps built from the two lists
ValidComparison(c, points_a, points_b) ==
  /\ c.point_a_id \in Range(points_a)
  /\ c.point_b_id \in Range(points_b)

\* compare_points: PointComparison(...) is built for an entry that passes the
\* lookup, and its validation raises on a relationship outside the pattern
ComparePointsRaises(raw, points_a, points_b) ==
  \E i \in 1..Len(raw) :
    /\ ValidComparison(raw[i], points_a, points_b)
    /\ raw[i].relationship \notin ValidRelationships

\* compare_points: the list it returns (article ids are left "" for the caller)
ComparePoints(raw, points_a, points_b) ==
  LET kept == SelectSeq(raw, LAMBDA c : ValidComparison(c, points_a, points_b))
  IN  [i \in 1..Len(kept) |->
         [point_a |-> kept[i].point_a_id, point_b |-> kept[i].point_b_id,
          article_a_id |-> "", article_b_id |-> "",
          relationship |-> kept[i].relationship]]

\* --- the comparison of a request's articles (compare_articles.py is not in
\* --- the sources at hand: written from the specification's sections 3-5)

RECURSIVE Dedupe(_)
Dedupe(s) ==
  IF s = <<>> THEN <<>>
  ELSE LET d == Dedupe(SubSeq(s, 1, Len(s) - 1))
       IN  IF s[Len(s)] \in Range(d) THEN d ELSE Append(d, s[Len(s)])

\* an article's topics: {primary} and secondary, case-normalized, each once
TopicList(a) ==
  LET all == <<a.primary>> \o a.secondary
  IN  Dedupe([i \in 1..Len(all) |-> Lower[all[i]]])

\* a mutation of SharedTopics: every topic of the first article
SharedTopicsAll(topics_a, topics_b) == topics_a

SharedTopics(topics_a, topics_b) == SelectSeq(topics_a, LAMBDA t : t \in Range(topics_b))

UniqueTopics(topics_a, topics_b) == SelectSeq(topics_a, LAMBDA t : t \notin Range(topics_b))

\* a mutation of LeaningDifference: the signed difference
LeaningDifferenceSigned(score_a, score_b) == score_a - score_b

\* |scoreA - scoreB|, in tenths
LeaningDifference(score_a, score_b) ==
  IF score_a >= score_b THEN score_a - score_b ELSE score_b - score_a

\* the point comparisons of one kind, with the article ids filled in
OfRelationship(comparisons, a, b, r) ==
  LET kept == SelectSeq(comparisons, LAMBDA c : c.relationship = r)
  IN  [i \in 1..Len(kept) |->
         [kept[i] EXCEPT !.article_a_id = a.id, !.article_b_id = b.id]]

\* compare(articleA, articleB), given what point matching returned
Compare(a, b, comparisons) ==
  [article_a_id |-> a.id, article_b_id |-> b.id,
   leaning_difference |-> LeaningDifference(a.score, b.score),
   shared_topics |-> SharedTopics(TopicList(a), TopicList(b)),
   unique_topics_a |-> UniqueTopics(TopicList(a), TopicList(b)),
   unique_topics_b |-> UniqueTopics(TopicList(b), TopicList(a)),
   agreements |-> OfRelationship(comparisons, a, b, "agrees"),
   disagreements |-> OfRelationship(comparisons, a, b, "disagrees")]

\* a mutation of PairsFrom: the inner loop starts at the article itself
PairsFromSelf(i, n) == [k \in 1..(n - i + 1) |-> <<i, i + k - 1>>]

\* the pairs an article opens: itself with every later article
PairsFrom(i, n) == [k \in 1..(n - i) |-> <<i, i + k>>]

RECURSIVE PairsUpTo(_, _)
PairsUpTo(i, n) == IF i = 0 THEN <<>> ELSE PairsUpTo(i - 1, n) \o PairsFrom(i, n)

\* every unordered pair of n articles, in the order they are compared
ArticlePairs(n) == PairsUpTo(n, n)

\* the pair compared next
NextPair == ArticlePairs(Len(articles))[Len(pairwise_comparisons) + 1]

\* a mutation of MatchPoints: what was matched before point matching raised
\* is kept
MatchPointsPartial(raw, points_a, points_b) ==
  ComparePoints(SelectSeq(raw, LAMBDA c : c.relationship \in ValidRelationships),
                points_a, points_b)

\* the relationships of a pair: what compare_points returns, none if it raises
MatchPoints(raw, points_a, points_b) ==
  IF ComparePointsRaises(raw, points_a, points_b) THEN <<>>
  ELSE ComparePoints(raw, points_a, points_b)

\* handleCompare: the urls of the selected articles, in their order
RequestUrls(as) == [i \in 1..Len(as) |-> as[i].id]

\* the analysis of a url
AnalyzedByUrl(u) == CHOOSE a \in AnalyzedArticles : a.id = u

\* an analysis not there yet
NoAnalyzed ==
  [id |-> "", score |-> 0, primary |-> "", secondary |-> <<>>, key_points |-> <<>>]

\* a mutation of GatherSlot: analyses are listed as they complete
GatherSlotAsCompleted(as, i, a) ==
  LET free == CHOOSE k \in 1..Len(as) :
                /\ as[k] = NoAnalyzed
                /\ \A j \in 1..(k - 1) : as[j] # NoAnalyzed
  IN  [as EXCEPT ![free] = a]

\* the analysis of the i-th url takes the i-th place
GatherSlot(as, i, a) == [as EXCEPT ![i] = a]

\* requests the schema turns away: no url, one url, six urls
RefusedLists ==
  LET a(u) == AnalyzedByUrl(u)
  IN  {<<>>, <<a("a1")>>, <<a("a3")>>,
       <<a("a1"), a("a2"), a("a3"), a("a4"), a("a5"), a("a1")>>}

\* a mutation of ValidArticleUrls: one url is enough
ValidArticleUrlsFromOne(us) == 1 <= Len(us) /\ Len(us) <= MaxArticles

\* CompareArticlesRequest.article_urls: Field(..., min_length=2, max_length=5)
ValidArticleUrls(us) == MinArticles <= Len(us) /\ Len(us) <= MaxArticles

\* compareMany(urls) begins: the request is validated, and the analysis of
\* every url is started
CompareMany(as) ==
  /\ cmp_pc = "idle"
  /\ urls' = RequestUrls(as)
  /\ IF ValidArticleUrls(RequestUrls(as))
       THEN /\ articles' = [i \in 1..Len(as) |-> NoAnalyzed]
            /\ pending' = 1..Len(as)
            /\ cmp_pc' = "analyzing"
       ELSE /\ cmp_pc' = "rejected"
            /\ UNCHANGED <<articles, pending>>
  /\ outOfOrder' = FALSE
  /\ pairwise_comparisons' = <<>>
  /\ lastRaw' = NoRaw
  /\ UNCHANGED <<comparison, now, maxsize, caches, requestVars, storeVars, retryVars, webVars>>

\* the analysis of the i-th url completes, in whatever order they do; the
\* pairs are compared once all have
AnalysisDone(i) ==
  /\ cmp_pc = "analyzing"
  /\ i \in pending
  /\ articles' = GatherSlot(articles, i, AnalyzedByUrl(urls[i]))
  /\ pending' = pending \ {i}
  /\ outOfOrder' = (outOfOrder \/ \E j \in pending : j < i)
  /\ cmp_pc' = IF pending = {i} THEN "pairs" ELSE "analyzing"
  /\ lastRaw' = NoRaw
  /\ UNCHANGED <<urls, pairwise_comparisons, comparison, now, maxsize, caches,
                 requestVars, storeVars, retryVars, webVars>>

\* one pair is compared; the provider answers raw, compare_points filters it;
\* if compare_points raises, the pair has no relationships
ComparePair(raw) ==
  /\ cmp_pc = "pairs"
  /\ Len(pairwise_comparisons) < Len(ArticlePairs(Len(articles)))
  /\ LET a == articles[NextPair[1]]
         b == articles[NextPair[2]]
         raises == ComparePointsRaises(raw, a.key_points, b.key_points)
         comparisons == MatchPoints(raw, a.key_points, b.key_points)
     IN  /\ pairwise_comparisons' = Append(pairwise_comparisons, Compare(a, b, comparisons))
         /\ lastRaw' = [raw |-> raw, failed |-> FALSE, raised |-> raises, asked |-> TRUE]
  /\ UNCHANGED <<articles, cmp_pc, comparison, urls, pending, outOfOrder, now, maxsize,
                 caches, requestVars, storeVars, retryVars, webVars>>

\* one pair is compared and the provider's request fails (AIProviderError):
\* the pair has no relationships
ComparePairFail ==
  /\ cmp_pc = "pairs"
  /\ Len(pairwise_comparisons) < Len(ArticlePairs(Len(articles)))
  /\ LET a == articles[NextPair[1]]
         b == articles[NextPair[2]]
     IN  pairwise_comparisons' = Append(pairwise_comparisons, Compare(a, b, <<>>))
  /\ lastRaw' = [raw |-> <<>>, failed |-> TRUE, raised |-> FALSE, asked |-> TRUE]
  /\ UNCHANGED <<articles, cmp_pc, comparison, urls, pending, outOfOrder, now, maxsize,
                 caches, requestVars, storeVars, retryVars, webVars>>

\* Math.max(...scores), Math.min(...scores)
MaxOf(scores) == CHOOSE m \in Range(scores) : \A x \in Range(scores) : x <= m
MinOf(scores) == CHOOSE m \in Range(scores) : \A x \in Range(scores) : m <= x

\* a mutation of GenerateComparisonSummary: the spread is taken between the
\* first and the last article
GenerateComparisonSummaryEnds(as) ==
  LET spread == LeaningDifference(as[1].score, as[Len(as)].score)
  IN  IF spread < 3 THEN "similar"
      ELSE IF spread < 6 THEN "moderate"
      ELSE "significant"

\* generateComparisonSummary: the overall summary's bucket, from the spread
\* of the scores (tenths: 0.3 is 3, 0.6 is 6)
GenerateComparisonSummary(as) ==
  LET scores == [i \in 1..Len(as) |-> as[i].score]
      spread == MaxOf(scores) - MinOf(scores)
  IN  IF spread < 3 THEN "similar"
      ELSE IF spread < 6 THEN "moderate"
      ELSE "significant"

\* ComparisonSummary's spreadLabel
SpreadLabel(leaningSpread) ==
  IF leaningSpread < 3 THEN "Low"
  ELSE IF leaningSpread < 6 THEN "Moderate"
  ELSE "High"

\* the MultiArticleComparison of the articles and their pairwise comparisons
BuildComparison(as, pairs) ==
  [articles |-> [i \in 1..Len(as) |-> as[i].id],
   leaning_spectrum |-> [i \in 1..Len(as) |-> <<as[i].id, as[i].score>>],
   overall_summary |-> GenerateComparisonSummary(as),
   n_pairs |-> Len(pairs)]

\* every pair has been compared: the MultiArticleComparison is returned
Aggregate ==
  /\ cmp_pc = "pairs"
  /\ Len(pairwise_comparisons) = Len(ArticlePairs(Len(articles)))
  /\ cmp_pc' = "done"
  /\ lastRaw' = NoRaw
  /\ comparison' = BuildComparison(articles, pairwise_comparisons)
  /\ UNCHANGED <<articles, pairwise_comparisons, urls, pending, outOfOrder, now, maxsize,
                 caches, requestVars, storeVars, retryVars, webVars>>

NextCompare ==
  \/ \E as \in ArticleLists \cup RefusedLists : CompareMany(as)
  \/ \E i \in 1..MaxArticles : AnalysisDone(i)
  \/ \E raw \in RawResponses : ComparePair(raw)
  \/ ComparePairFail
  \/ Aggregate

\* the comparison is exercised over one store
InitComparing == Init /\ maxsize = MaxCacheSize

SpecCompare == InitComparing /\ [][NextCompare]_vars

\* ====================================================================
\* Claims about the comparison (specification SpecCompare)
\* ====================================================================

\* the requested article with the given id
ArticleOf(id) == CHOOSE a \in Range(articles) : a.id = id

\* an article's topic set: {primary} and secondary, case-normalized
TopicSet(a) == {Lower[t] : t \in {a.primary} \cup Range(a.secondary)}

\* the two articles a comparison names, as a set of ids
PairIds(p) == {p.article_a_id, p.article_b_id}

\* C7: compareMany on N distinct articles, N in {2,3,5}, returns exactly
\* N(N-1)/2 pairwise comparisons, none of an article with itself, and every
\* unordered pair of the N articles is in exactly one of them.
C7_EveryPairOnce ==
  (cmp_pc = "done" /\ Len(articles) \in {2, 3, 5}) =>
    LET n == Len(articles)
    IN  /\ Len(pairwise_comparisons) = (n * (n - 1)) \div 2
        /\ \A k \in 1..Len(pairwise_comparisons) :
             /\ pairwise_comparisons[k].article_a_id # pairwise_comparisons[k].article_b_id
             /\ PairIds(pairwise_comparisons[k]) \subseteq {articles[i].id : i \in 1..n}
        /\ \A i, j \in 1..n :
             i < j =>
               Cardinality({k \in 1..Len(pairwise_comparisons) :
                              PairIds(pairwise_comparisons[k])
                                = {articles[i].id, articles[j].id}}) = 1

\* a comparison of five articles has returned its ten pairs
C7_Witness ==
  /\ cmp_pc = "done"
  /\ Len(articles) = 5
  /\ Len(pairwise_comparisons) = 10

\* C8: in every pairwise comparison sharedTopics, uniqueTopicsA and
\* uniqueTopicsB are pairwise disjoint, their union is topicsA union topicsB,
\* sharedTopics is topicsA intersect topicsB and uniqueTopicsA is topicsA
\* minus topicsB.
C8_TopicPartition ==
  \A k \in 1..Len(pairwise_comparisons) :
    LET p == pairwise_comparisons[k]
        topicsA == TopicSet(ArticleOf(p.article_a_id))
        topicsB == TopicSet(ArticleOf(p.article_b_id))
        shared == Range(p.shared_topics)
        uniqueA == Range(p.unique_topics_a)
        uniqueB == Range(p.unique_topics_b)
    IN  /\ shared \cap uniqueA = {}
        /\ shared \cap uniqueB = {}
        /\ uniqueA \cap uniqueB = {}
        /\ shared \cup uniqueA \cup uniqueB = topicsA \cup topicsB
        /\ shared = topicsA \cap topicsB
        /\ uniqueA = topicsA \ topicsB

\* a comparison whose three topic sets are all non-empty, the shared one
\* through topics spelled differently in the two articles
C8_Witness ==
  \E k \in 1..Len(pairwise_comparisons) :
    LET p == pairwise_comparisons[k]
        a == ArticleOf(p.article_a_id)
        b == ArticleOf(p.article_b_id)
    IN  /\ p.shared_topics # <<>>
        /\ p.unique_topics_a # <<>>
        /\ p.unique_topics_b # <<>>
        /\ ({a.primary} \cup Range(a.secondary)) \cap ({b.primary} \cup Range(b.secondary)) = {}

\* C9: compare(A,B) and compare(B,A) have equal sharedTopics and equal
\* leaningDifference, and uniqueTopicsA of compare(A,B) is uniqueTopicsB of
\* compare(B,A).
C9_Symmetry ==
  \A k \in 1..Len(pairwise_comparisons) :
    LET ab == pairwise_comparisons[k]
        ba == Compare(ArticleOf(ab.article_b_id), ArticleOf(ab.article_a_id), <<>>)
    IN  /\ Range(ab.shared_topics) = Range(ba.shared_topics)
        /\ ab.leaning_difference = ba.leaning_difference
        /\ Range(ab.unique_topics_a) = Range(ba.unique_topics_b)

\* a comparison of two articles with different scores and different topics
C9_Witness ==
  \E k \in 1..Len(pairwise_comparisons) :
    /\ pairwise_comparisons[k].leaning_difference > 0
    /\ pairwise_comparisons[k].shared_topics # <<>>
    /\ Range(pairwise_comparisons[k].unique_topics_a)
         # Range(pairwise_comparisons[k].unique_topics_b)

\* the comparison built in the step just taken, and its two articles' points
LastComparison == pairwise_comparisons[Len(pairwise_comparisons)]
OwnPoints ==
  Range(ArticleOf(LastComparison.article_a_id).key_points)
    \cup Range(ArticleOf(LastComparison.article_b_id).key_points)
Kept == Range(LastComparison.agreements) \cup Range(LastComparison.disagreements)
RefersToUnknownPoint(c) == c.point_a_id \notin OwnPoints \/ c.point_b_id \notin OwnPoints

\* C10: a relationship returned by point matching that names a point id of
\* neither article is in neither agreements nor disagreements, is not
\* counted, and is not what makes point matching raise; every relationship
\* kept names only points of the two compared articles.
C10_UnknownPointsDropped ==
  lastRaw.asked =>
    LET raw == lastRaw.raw
        known(r) == {i \in 1..Len(raw) :
                       ~RefersToUnknownPoint(raw[i]) /\ raw[i].relationship = r}
    IN  /\ \A i \in 1..Len(raw) :
             RefersToUnknownPoint(raw[i]) =>
               ~\E c \in Kept : /\ c.point_a = raw[i].point_a_id
                                /\ c.point_b = raw[i].point_b_id
        /\ Len(LastComparison.agreements) <= Cardinality(known("agrees"))
        /\ Len(LastComparison.disagreements) <= Cardinality(known("disagrees"))
        /\ lastRaw.raised => \E i \in 1..Len(raw) : ~RefersToUnknownPoint(raw[i])
        /\ \A c \in Kept : c.point_a \in OwnPoints /\ c.point_b \in OwnPoints

\* point matching answered with relationships of unknown points next to
\* valid ones, and the valid ones were kept
C10_Witness ==
  /\ lastRaw.asked
  /\ ~lastRaw.raised
  /\ \E i \in 1..Len(lastRaw.raw) :
       /\ RefersToUnknownPoint(lastRaw.raw[i])
       /\ lastRaw.raw[i].relationship = "agrees"
  /\ LastComparison.agreements # <<>>
  /\ LastComparison.disagreements # <<>>

\* the label for a spread, written once for both wordings
SpreadBucket(spread) ==
  IF spread < 3 THEN <<"similar", "Low">>
  ELSE IF spread < 6 THEN <<"moderate", "Moderate">>
  ELSE <<"significant", "High">>

\* the spread of the compared articles' scores
ScoreSpread ==
  LET scores == {articles[i].score : i \in 1..Len(articles)}
  IN  CHOOSE d \in 0..20 : \E hi \in scores, lo \in scores :
        /\ d = hi - lo
        /\ \A x \in scores : lo <= x /\ x <= hi

\* C11: the overall summary's bucket is a function of the spread (max score
\* minus min score over all the articles) alone, with the thresholds of the
\* leaning label (0.3 and 0.6); scores -0.6, 0.0 and 0.6 give the
\* significant-spread bucket.
C11_SummaryBucketFromSpread ==
  cmp_pc = "done" =>
    /\ comparison.overall_summary = SpreadBucket(ScoreSpread)[1]
    /\ SpreadLabel(ScoreSpread) = SpreadBucket(ScoreSpread)[2]
    /\ {articles[i].score : i \in 1..Len(articles)} = {-6, 0, 6}
         => comparison.overall_summary = "significant"

\* articles scored -0.6, 0.0 and 0.6, the middle one last, have been compared
C11_Witness ==
  /\ cmp_pc = "done"
  /\ Len(articles) = 3
  /\ {articles[i].score : i \in 1..Len(articles)} = {-6, 0, 6}
  /\ articles[3].score = 0
  /\ comparison.overall_summary = "significant"

\* ====================================================================
\* Further claims about AnalyzeArticleUseCase.execute (specification Spec)
\* ====================================================================

\* C12 (as claimed): a value held in the store is not modified after it was
\* inserted: a step that serves a cache hit leaves every stored analysis,
\* its cached flag included, as it was before the step.
C12_HitLeavesEntryUnmodified ==
  [][justBegan'.hit =>
       \A u \in Urls :
         HasLink(caches["analysis"], AnalysisKey(u, ProviderName)) =>
           /\ HasLink(caches'["analysis"], AnalysisKey(u, ProviderName))
           /\ LinkOf(caches'["analysis"], AnalysisKey(u, ProviderName)).value
                = LinkOf(caches["analysis"], AnalysisKey(u, ProviderName)).value]_vars

\* ====================================================================
\* Further claims about MemoryCache (specification SpecCache)
\* ====================================================================

\* the TTL the specification gives an entry type, in seconds
ClaimedTtl(key_type) ==
  CASE key_type = "article"  -> 60 * 60
    [] key_type = "analysis" -> 24 * 60 * 60
    [] key_type = "search"   -> 15 * 60
    [] key_type = "related"  -> 30 * 60

\* C13: the TTL that governs an entry is that of its entry type, whatever
\* else the entry was set with: article content 1 hour, analysis result 24
\* hours, search result 15 minutes, related articles 30 minutes.
C13_TtlByEntryType ==
  \A k \in StoreKeys :
    (KeyType(k) \in {"article", "analysis", "search", "related"}
       /\ HasLink(caches[KeyType(k)], k)) =>
      /\ LinkOf(caches[KeyType(k)], k).expires - setAt[k] = ClaimedTtl(KeyType(k))
      /\ CacheExists(caches, k, now) <=> now - setAt[k] < ClaimedTtl(KeyType(k))

\* a search result and an analysis result set at the same time: thirty
\* minutes on the first has expired and the second is still served
C13_Witness ==
  \E k1, k2 \in StoreKeys :
    /\ KeyType(k1) = "search"
    /\ KeyType(k2) = "analysis"
    /\ setAt[k1] = setAt[k2]
    /\ setAt[k1] >= 0
    /\ now - setAt[k1] = 1800
    /\ HasLink(caches["search"], k1)
    /\ ~CacheExists(caches, k1, now)
    /\ CacheExists(caches, k2, now)

\* ====================================================================
\* Further claims about the comparison (specification SpecCompare)
\* ====================================================================

\* C14: if point matching fails for a pair (the provider's request fails, or
\* compare_points raises on the answer), the pair's comparison is still
\* produced, with no agreements and no disagreements and with its topic and
\* leaning fields computed, and the comparison of the request goes on.
C14_FailedMatchingDegrades ==
  (lastRaw.asked /\ (lastRaw.failed \/ lastRaw.raised)) =>
    LET a == ArticleOf(LastComparison.article_a_id)
        b == ArticleOf(LastComparison.article_b_id)
    IN  /\ LastComparison.agreements = <<>>
        /\ LastComparison.disagreements = <<>>
        /\ LastComparison.leaning_difference = LeaningDifference(a.score, b.score)
        /\ Range(LastComparison.shared_topics) = TopicSet(a) \cap TopicSet(b)
        /\ Range(LastComparison.unique_topics_a) = TopicSet(a) \ TopicSet(b)
        /\ Range(LastComparison.unique_topics_b) = TopicSet(b) \ TopicSet(a)
        /\ cmp_pc = "pairs"
        /\ \/ Len(pairwise_comparisons) < Len(ArticlePairs(Len(articles)))
           \/ ENABLED Aggregate

\* compare_points raised on an answer that also held a valid agreement, for
\* two articles with shared topics and different scores
C14_Witness ==
  /\ lastRaw.asked
  /\ lastRaw.raised
  /\ \E i \in 1..Len(lastRaw.raw) :
       /\ ~RefersToUnknownPoint(lastRaw.raw[i])
       /\ lastRaw.raw[i].relationship = "agrees"
  /\ LastComparison.shared_topics # <<>>
  /\ LastComparison.leaning_difference > 0

\* ====================================================================
\* Claims about failures of the store (specification Spec)
\* ====================================================================

\* C15 (as claimed): a failure inside the store never reaches the caller as
\* an error: no request ends with the error the store's set raised.
C15_StoreFailureNeverSurfaces ==
  justFailed.error # "ValueError"

\* C16 (as claimed): when a caller is cancelled, the computation it was
\* waiting on keeps running: as many computations for its key are in flight
\* after the cancellation as before it.
C16_CancelledCallerOnlyDetaches ==
  [][justFailed'.error = "CancelledError" =>
       Cardinality({c \in Callers : pc'[c] \in InFlightPcs /\ url'[c] = justFailed'.url})
         = Cardinality(InFlight(justFailed'.url))]_vars

\* C17: in a comparison result the articles list and leaningSpectrum follow
\* the caller's url order, whatever order the analyses completed in, and
\* leaningSpectrum gives each article id that article's own score.
C17_RequestOrderKept ==
  cmp_pc = "done" =>
    /\ Len(comparison.articles) = Len(urls)
    /\ Len(comparison.leaning_spectrum) = Len(urls)
    /\ \A i \in 1..Len(urls) :
         /\ comparison.articles[i] = urls[i]
         /\ comparison.leaning_spectrum[i][1] = urls[i]
         /\ \E a \in AnalyzedArticles :
              a.id = urls[i] /\ comparison.leaning_spectrum[i][2] = a.score

\* a comparison has been returned whose analyses completed out of the
\* caller's order
C17_Witness ==
  /\ cmp_pc = "done"
  /\ outOfOrder
  /\ Len(urls) >= 3
  /\ comparison.articles = urls

\* C18: a comparison is accepted only for 2 to 5 urls; a request with fewer
\* than 2 urls, or more than 5, is rejected with a validation error.
C18_TwoToFiveUrls ==
  cmp_pc # "idle" =>
    /\ cmp_pc = "rejected" <=> (Len(urls) < 2 \/ Len(urls) > 5)
    /\ cmp_pc = "rejected" => (articles = <<>> /\ comparison = NoComparison)

\* a request with a single url has been rejected
C18_Witness ==
  /\ cmp_pc = "rejected"
  /\ Len(urls) = 1

\* ====================================================================
\* Claims about eviction (specification SpecEvict)
\* ====================================================================

\* key k was popped to make room in the step, and key j, in the cache before
\* the step, is still in it
PoppedOver(k, j) ==
  /\ evicted'[k] /\ ~evicted[k]
  /\ j # k
  /\ HasLink(caches["search"], j)
  /\ HasLink(caches'["search"], j)
  /\ insertedSeq'[j] = insertedSeq[j]

\* C19 (as claimed): when a set finds its type's cache full, the entries
\* evicted are the oldest-inserted of the type: none stays that was inserted
\* before an evicted one.
C19_OldestInsertedFirst ==
  [][\A k, j \in EvictKeys :
       PoppedOver(k, j) => insertedSeq[j] > insertedSeq[k]]_vars

\* C19 (amended): the entries evicted are the least recently used: an entry
\* inserted before an evicted one stays only if get has returned it since it
\* was inserted.
C19_OldestUnreadFirst ==
  [][\A k, j \in EvictKeys :
       PoppedOver(k, j) => (insertedSeq[j] > insertedSeq[k] \/ readSince[j])]_vars

\* an entry has been evicted while an entry inserted before it, and read
\* since, is still served
C19_Witness ==
  \E k, j \in EvictKeys :
    /\ evicted[k]
    /\ insertedSeq[j] < insertedSeq[k]
    /\ 0 < insertedSeq[j]
    /\ readSince[j]
    /\ CacheExists(caches, j, now)

\* ====================================================================
\* Claims about the provider request (specification SpecRetryFair)
\* ====================================================================

RequestRunning == req_pc \in {"attempting", "sleeping"}

RequestEnded == req_pc \in {"returned", "raised"}

\* each wait is twice the one before it, from one second
Doubling(ws) ==
  /\ Len(ws) > 0 => ws[1] = 1
  /\ \A i \in 2..Len(ws) : ws[i] = 2 * ws[i - 1]

\* the attempts of a call are at most three, with a sleep after each failed
\* one but the last, and the caller is given nothing before the call ends and
\* one outcome when it does
BoundedRetry ==
  /\ Len(attempt_log) <= 3
  /\ Doubling(sleeps)
  /\ RequestRunning => delivered = <<>>
  /\ RequestEnded =>
       /\ Len(delivered) = 1
       /\ Len(sleeps) = Len(attempt_log) - 1
       /\ \A i \in 1..(Len(attempt_log) - 1) : attempt_log[i] \in RequestErrors
       /\ req_pc = "returned" =>
            delivered[1] = attempt_log[Len(attempt_log)] /\ delivered[1] \in Responses
       /\ req_pc = "raised" =>
            delivered[1] = "RetryError" /\ Len(attempt_log) = 3

\* C20: a provider request that fails is attempted again at most until three
\* attempts have been made in all, after waits that double; its caller sees
\* one outcome, the response or the failure, and every call made comes to it.
C20_BoundedRetryTerminates ==
  /\ []BoundedRetry
  /\ RequestRunning ~> RequestEnded

\* a call has raised after three failed attempts and waits of 1 and 2 seconds
C20_Witness ==
  /\ req_pc = "raised"
  /\ Len(attempt_log) = 3
  /\ sleeps = <<1, 2>>
  /\ delivered = <<"RetryError">>

\* ====================================================================
\* Claims about errors and their display (specification SpecErrors)
\* ====================================================================

\* the body is a structured backend error: success false, with an error
\* object that has a code
StructuredBody(data) ==
  /\ data.type = "object"
  /\ data.success = "false"
  /\ data.error.kind = "object"
  /\ data.error.code # "absent"

\* C21: every failed API call gives its caller an error with a code, a
\* message and a retryable flag: NETWORK_ERROR, retryable, when there was no
\* response; the backend's code, message and flag when the body is a
\* structured error; INTERNAL_ERROR, retryable, for any other failure.
C21_EveryFailureStructured ==
  thrown.failed =>
    LET e == thrown.error
    IN /\ e.name = "SpectrumError"
       /\ e.code \in ErrorCodes
       /\ e.message # ""
       /\ e.retryable \in {"true", "false"}
       /\ IF ~thrown.has_response
            THEN e.code = "NETWORK_ERROR" /\ e.retryable = "true"
          ELSE IF StructuredBody(thrown.data)
            THEN /\ e.code = thrown.data.error.code
                 /\ e.message = thrown.data.error.message
                 /\ e.retryable = thrown.data.error.retryable
          ELSE e.code = "INTERNAL_ERROR" /\ e.retryable = "true"

\* the error rendered carries no structured field
Unstructured(error) == error.code = "absent" /\ error.retryable = "absent"

\* C24: the retry action is offered exactly when a retry handler is supplied
\* and the error's retryable flag is true, an error with no structured field
\* counting as INTERNAL_ERROR and retryable.
C24_RetryOfferedWhenRetryable ==
  shown.error.name # "none" =>
    /\ shown.view.show_retry =
         (shown.on_retry /\ (Unstructured(shown.error) \/ shown.error.retryable = "true"))
    /\ Unstructured(shown.error) => shown.view.code = "INTERNAL_ERROR"

\* an error that is not retryable has been rendered with a handler and no
\* retry action
C24_Witness ==
  /\ shown.on_retry
  /\ shown.error.name = "SpectrumError"
  /\ shown.error.retryable = "false"
  /\ ~shown.view.show_retry

\* ====================================================================
\* Claims about the search history (specification SpecHistory)
\* ====================================================================

HistoryUrlsOf(items) == {items[i].url : i \in 1..Len(items)}

\* at most 10 items, no URL twice, the later added the earlier in the list
\* (by the order of the adds: searchedAt, read from the clock, need not tell it)
HistoryWellFormed ==
  /\ Len(history) <= 10
  /\ \A i, j \in 1..Len(history) : i < j =>
       /\ history[i].url # history[j].url
       /\ addedSeq[history[i].url] > addedSeq[history[j].url]

\* in a step that adds, the URL added is at the front; if it was there the
\* list does not grow and the others keep their order; if it was not and
\* the list was full, the last item, the least recently added, is dropped
AddMovesToFront ==
  addedSeq' # addedSeq =>
    LET u == history'[1].url
        others == SubSeq(history', 2, Len(history'))
    IN /\ Len(history') >= 1
       /\ u \in HistoryUrlsOf(history) =>
            /\ Len(history') = Len(history)
            /\ others = WithoutUrl(history, u)
       /\ (u \notin HistoryUrlsOf(history) /\ Len(history) = 10) =>
            /\ Len(history') = 10
            /\ others = SubSeq(history, 1, 9)
       /\ (u \notin HistoryUrlsOf(history) /\ Len(history) < 10) =>
            others = history

\* C22: after any addToHistory, removeFromHistory and clearHistory the
\* history holds at most 10 items, no two with one URL, the most recently
\* added first; adding a URL that is there moves it to the front without
\* growing the list, and an 11th distinct URL drops the least recently added.
C22_HistoryBounded ==
  /\ []HistoryWellFormed
  /\ [][AddMovesToFront]_vars

\* an 11th URL has been added to a full history, and the oldest is gone;
\* the clock did not tell the new item from the one before it
C22_Witness ==
  /\ Len(history) = 10
  /\ history[1].url = 11
  /\ history[1].searchedAt <= history[2].searchedAt
  /\ 1 \notin HistoryUrlsOf(history)
  /\ historyOps > 0

\* ====================================================================
\* Claims about the comparison selection (specification SpecSelection)
\* ====================================================================

\* C23: the comparison selection holds at most 5 articles after any
\* addArticle, addPendingArticle, removeArticle, clearArticles and
\* replacePendingWithAnalyzed, and an add of any article to a selection of
\* 5 leaves it as it is.
C23_AtMostFiveSelected ==
  /\ Len(selectedArticles) <= 5
  /\ Len(selectedArticles) = 5 =>
       \A u \in SelectionUrls :
         /\ WithArticle(selectedArticles, Analyzed(u)) = selectedArticles
         /\ WithPendingArticle(selectedArticles, u) = selectedArticles

\* five are selected, pending and analyzed among them
C23_Witness ==
  /\ Len(selectedArticles) = 5
  /\ \E i, j \in 1..5 :
       IsPendingArticle(selectedArticles[i]) /\ ~IsPendingArticle(selectedArticles[j])

\* C28: no two entries of the comparison selection have the same id
\* (getArticleId: the URL of a pending article, the article_id of an
\* analyzed one).
C28_SelectionIdsDistinct ==
  \A i, j \in 1..Len(selectedArticles) :
    i # j => GetArticleId(selectedArticles[i]) # GetArticleId(selectedArticles[j])

\* ====================================================================
\* Claims about the backend status (specification SpecStatus)
\* ====================================================================

\* the changes of status the claim allows
StatusMoves ==
  {<<"checking", "awake">>, <<"checking", "waking">>,
   <<"waking", "awake">>, <<"waking", "error">>}

\* C25: the status changes only along checking->awake, checking->waking,
\* waking->awake and waking->error, and to checking when checkStatus is
\* called; once 'error' it stays 'error' until checkStatus is called again.
C25_StatusMovesOnly ==
  [][status' # status =>
       \/ <<status, status'>> \in StatusMoves
       \/ status' = "checking" /\ checks' = checks + 1]_vars

\* C27: at most one polling timer is active at any time; none while the
\* status is 'awake' or 'error', none after unmount, and the status does not
\* change after unmount.
C27_OnePollingTimer ==
  /\ [](Cardinality(timers) <= 1)
  /\ [](status \in {"awake", "error"} => timers = {})
  /\ [](lifecycle = "unmounted" => timers = {})
  /\ [][lifecycle = "unmounted" => status' = status]_vars

\* the status is settled, or the component is gone
StatusSettled == status \in {"awake", "error"} \/ lifecycle = "unmounted"

\* every call of checkStatus leads to 'awake' or 'error' while mounted
StatusSettles == (lifecycle = "mounted") ~> StatusSettled

\* the status becomes 'error' only when at least 90 seconds have passed
\* since checkStatus was last called
ErrorOnlyAfterMaxWait ==
  [][(status' = "error" /\ status # "error") => clock - lastCheckAt >= 90]_vars

\* C26: while mounted, every call of checkStatus leads to 'awake' or to
\* 'error', the latter no sooner than 90 seconds after the call; the status
\* does not stay 'checking' or 'waking' forever.
C26_StatusSettles ==
  /\ StatusSettles
  /\ ErrorOnlyAfterMaxWait

\* ====================================================================
\* The comparison views (spectrum-web)
\* ====================================================================

\* [article.topics.primary_topic, ...article.topics.secondary_topics]
AllTopics(a) == <<a.primary>> \o a.secondary

\* pairwiseComparisons.find(...): the pair of the two articles, in either order
FindComparison(pairs, articleA, articleB) ==
  LET hits == SelectSeq(pairs, LAMBDA p :
                \/ p.article_a_id = articleA.id /\ p.article_b_id = articleB.id
                \/ p.article_a_id = articleB.id /\ p.article_b_id = articleA.id)
  IN hits[1]

\* TopicsSection: isArticleA ? comparison.unique_topics_a : comparison.unique_topics_b
UniqueTopicsUsed(pair, isArticleA) ==
  IF isArticleA THEN pair.unique_topics_a ELSE pair.unique_topics_b

\* TopicsSection: how each topic of the article is marked
TopicMarks(article, pair, isArticleA) ==
  LET allTopics == AllTopics(article)
  IN [i \in 1..Len(allTopics) |->
        [topic |-> allTopics[i],
         mark |-> IF allTopics[i] \in Range(pair.shared_topics) THEN "shared"
                  ELSE IF allTopics[i] \in Range(UniqueTopicsUsed(pair, isArticleA))
                    THEN "unique"
                  ELSE "plain"]]

\* SideBySideView({ articles, pairwiseComparisons }) is rendered with two
\* articles and their comparison, stored with the first as article_a_id or
\* as article_b_id
RenderSideBySide(a, b, stored_swapped) ==
  LET articles_ == <<a, b>>
      pairs == IF stored_swapped THEN <<Compare(b, a, <<>>)>> ELSE <<Compare(a, b, <<>>)>>
      found == FindComparison(pairs, a, b)
  IN /\ a # b
     /\ sideBySide' =
          [rendered |-> TRUE, articles |-> articles_, stored_swapped |-> stored_swapped,
           unique_used |-> <<UniqueTopicsUsed(found, TRUE), UniqueTopicsUsed(found, FALSE)>>,
           marks |-> <<TopicMarks(a, found, TRUE), TopicMarks(b, found, FALSE)>>]
     /\ comparisonView' = NoComparisonView
     /\ UNCHANGED <<errorVars, historyVars, selectedArticles, statusVars, serverVars>>

\* new Set([a.topics.primary_topic, ...a.topics.secondary_topics])
TopicSetOf(a) == Range(AllTopics(a))

\* topicSets.reduce((acc, set) => acc.size === 0 ? set : acc filtered by set,
\* new Set()), over the first n sets
RECURSIVE ReduceTopics(_, _)
ReduceTopics(as, n) ==
  IF n = 0 THEN {}
  ELSE LET acc == ReduceTopics(as, n - 1)
       IN IF acc = {} THEN TopicSetOf(as[n]) ELSE acc \cap TopicSetOf(as[n])

\* commonTopics
CommonTopics(as) == ReduceTopics(as, Len(as))

\* the article lists a ComparisonView is given: one article, and the requests
OneArticleLists == {<<a>> : a \in AnalyzedArticles}

\* ComparisonView({ articles, ... }) is rendered
RenderComparisonView(as) ==
  /\ comparisonView' = [rendered |-> TRUE, articles |-> as, common_topics |-> CommonTopics(as)]
  /\ sideBySide' = NoSideBySide
  /\ UNCHANGED <<errorVars, historyVars, selectedArticles, statusVars, serverVars>>

NextViews ==
  \/ \E a, b \in AnalyzedArticles, stored_swapped \in BOOLEAN :
       RenderSideBySide(a, b, stored_swapped)
  \/ \E as \in OneArticleLists \cup ArticleLists : RenderComparisonView(as)

SpecViews == InitClient /\ [][NextViews]_vars

\* ====================================================================
\* Claims about the comparison views (specification SpecViews)
\* ====================================================================

\* the unique topics the comparison holds for the k-th displayed article
OwnUniqueTopics(k) ==
  LET a == sideBySide.articles[k]
      other == sideBySide.articles[3 - k]
  IN UniqueTopics(TopicList(a), TopicList(other))

\* C29: each of the two displayed articles is highlighted with its own
\* unique topics from the matching comparison, whichever way round the
\* comparison stores the two; a topic is marked unique to an article only
\* if it is one of that article's and not one of the other's.
C29_OwnUniqueTopicsHighlighted ==
  sideBySide.rendered =>
    \A k \in 1..2 :
      /\ sideBySide.unique_used[k] = OwnUniqueTopics(k)
      /\ \A i \in 1..Len(sideBySide.marks[k]) :
           sideBySide.marks[k][i].mark = "unique" =>
             /\ Lower[sideBySide.marks[k][i].topic] \in Range(TopicList(sideBySide.articles[k]))
             /\ Lower[sideBySide.marks[k][i].topic] \notin
                  Range(TopicList(sideBySide.articles[3 - k]))

\* the intersection of the topic sets of the articles of a list
RECURSIVE TopicsOfAll(_, _)
TopicsOfAll(as, n) ==
  IF n = 1 THEN TopicSetOf(as[1]) ELSE TopicsOfAll(as, n - 1) \cap TopicSetOf(as[n])

\* C30: the common topics shown for N >= 1 articles are the intersection
\* of the N articles' topic sets (primary and secondary topics), so none
\* when some two of the articles have no topic in common.
C30_CommonTopicsAreIntersection ==
  comparisonView.rendered =>
    LET as == comparisonView.articles
    IN /\ comparisonView.common_topics = TopicsOfAll(as, Len(as))
       /\ (\E i, j \in 1..Len(as) : TopicSetOf(as[i]) \cap TopicSetOf(as[j]) = {}) =>
            comparisonView.common_topics = {}

====
